---- MODULE Spec2Model ----
(***************************************************************************)
(* Model of the SkyWare mod-sharing data layer (mod_share_database.py) and *)
(* of the patch dispatch of the WiiWare modder (main.py).                  *)
(*                                                                         *)
(* Text values that the code inspects character by character (strip, "in", *)
(* len, splitext, lower) are sequences of one-character strings.           *)
(* Optional values are sequences of length 0 (None / NULL) or 1.           *)
(***************************************************************************)
EXTENDS Integers, Sequences, FiniteSets, TLC

VARIABLES users, mods, comments, downloads, mod_categories, categories, now, last

\* The registry: the committed contents of the database file, the clock and
\* the outcome of the last sequential call
regvars == <<users, mods, comments, downloads, mod_categories, categories, now, last>>

\* Concurrent callers: each caller's connection, the holder of the database
\* write lock (0: nobody), the record_download calls that returned per mod
VARIABLES conn, dblock, returned

txnvars == <<conn, dblock, returned>>

\* The WiiWare modder: the files on disk, the single-file patch form and its
\* worker thread, the message box shown last, the batch form, the batch
\* worker thread and the progress it reported last
VARIABLES files, current_file, patch_file_var, backup_before_patch,
          patch_history, history_selection, patcher, dialog, batch_files,
          batch_output_var,
          batch_patch_file_var, batch_operation, worker, operation_progress

\* The thread that made the last call on a widget, a Tk variable or a
\* message box
VARIABLES ui_caller

singlevars == <<current_file, patch_file_var, backup_before_patch, patch_history,
                history_selection, patcher>>

batchvars == <<batch_files, batch_output_var, batch_patch_file_var,
               batch_operation, worker, operation_progress>>

patchvars == <<files, dialog, singlevars, batchvars, ui_caller>>

\* The mod-share tab: the account of the session, the files the tab reads
\* and writes with the size class of each, and the message box shown last
VARIABLES current_user, share_files, share_dialog

\* The mod browser of the tab: the page index, whether the Next button is
\* enabled, the text of the search box, and the ids of the rows listed
VARIABLES current_page, next_button, search_var, mods_tree

browsevars == <<current_page, next_button, search_var, mods_tree>>

sharevars == <<current_user, share_files, share_dialog, browsevars>>

vars == <<regvars, txnvars, patchvars, sharevars>>

----------------------------------------------------------------------------
(* Bounds of the model *)

MaxUsers == 2
MaxTime == 2
MaxMods == 2
MaxComments == 3
MaxDownloads == 2
NumCallers == 2
MaxTxnComments == 2
MaxHistory == 1
MaxBatch == 2
MaxLogLines == 2
\* Rows of a page of the mod browser (self.mods_per_page, 10 in the program,
\* scaled to the registries of the model)
mods_per_page == 1

----------------------------------------------------------------------------
(* Python / SQL value helpers *)

None == <<>>
Some(x) == <<x>>

Whitespace == {" ", "\t", "\n"}

RECURSIVE LStrip(_)
LStrip(s) == IF s # <<>> /\ Head(s) \in Whitespace THEN LStrip(Tail(s)) ELSE s

RECURSIVE RStrip(_)
RStrip(s) ==
  IF s # <<>> /\ s[Len(s)] \in Whitespace THEN RStrip(SubSeq(s, 1, Len(s) - 1)) ELSE s

\* str.strip()
Strip(s) == RStrip(LStrip(s))

\* c in s, for a single character c
Contains(s, c) == \E i \in 1..Len(s) : s[i] = c

\* hashlib.sha256(password.encode()).hexdigest(): a deterministic digest,
\* distinct for the distinct passwords of the model
hash_password(password) == <<"sha256">> \o password

----------------------------------------------------------------------------
(* Inputs *)

S_alice == <<"a", "l", "i", "c", "e">>
S_alice_padded == <<" ", "a", "l", "i", "c", "e", " ">>
S_bob == <<"b", "o", "b">>
S_blank == <<" ", " ">>
S_empty == <<>>

E_alice == <<"a", "@", "x", ".", "c">>
E_bob == <<"b", "@", "x", ".", "c">>
E_noat == <<"a", "x", ".", "c">>
E_nodot == <<"a", "@", "x">>

P_secret1 == <<"s", "e", "c", "r", "e", "t", "1">>
P_hunter == <<"h", "u", "n", "t", "e", "r">>
P_short == <<"s", "h", "o", "r", "t">>

Usernames == {S_alice, S_alice_padded, S_bob, S_blank, S_empty}
Emails == {E_alice, E_bob, E_noat, E_nodot, S_empty}
Passwords == {P_secret1, P_hunter, P_short, S_empty}

----------------------------------------------------------------------------
(* Error kinds: the messages the code raises *)

ErrUsernameEmpty == "Username cannot be empty"
ErrEmailEmpty == "Email cannot be empty"
ErrPasswordShort == "Password must be at least 6 characters"
ErrEmailFormat == "Invalid email format"
DuplicateUsername == "Username already exists"
DuplicateEmail == "Email already exists"
ProgrammingError == "sqlite3.ProgrammingError"
OperationalError == "sqlite3.OperationalError"
OK == "ok"

----------------------------------------------------------------------------
(* Accounts *)

UserIds == 1..Len(users)

\* create_user, input validation without the test of the email format
CreateUserValidation_NoFormat(username, email, password) ==
  IF username = <<>> \/ Strip(username) = <<>> THEN ErrUsernameEmpty
  ELSE IF email = <<>> \/ Strip(email) = <<>> THEN ErrEmailEmpty
  ELSE IF password = <<>> \/ Len(password) < 6 THEN ErrPasswordShort
  ELSE OK

\* create_user, input validation: the message raised, or OK
CreateUserValidation(username, email, password) ==
  IF username = <<>> \/ Strip(username) = <<>> THEN ErrUsernameEmpty
  ELSE IF email = <<>> \/ Strip(email) = <<>> THEN ErrEmailEmpty
  ELSE IF password = <<>> \/ Len(password) < 6 THEN ErrPasswordShort
  ELSE IF ~Contains(email, "@") \/ ~Contains(email, ".") THEN ErrEmailFormat
  ELSE OK

\* INSERT INTO users under the two UNIQUE constraints of the schema.  SQLite
\* reports one violated constraint; when both are violated it reports
\* users.email (observed with the sqlite3 module: the later index is checked
\* first).
UsersUniqueViolation(username, email) ==
  IF \E i \in UserIds : users[i].email = email THEN "users.email"
  ELSE IF \E i \in UserIds : users[i].username = username THEN "users.username"
  ELSE "none"

\* except sqlite3.IntegrityError: "username" in str(e) ? ... : ...
IntegrityErrorMessage(constraint) ==
  IF constraint = "users.username" THEN DuplicateUsername ELSE DuplicateEmail

NewUser(username, email, password) ==
  [id |-> Len(users) + 1, username |-> username, email |-> email,
   password_hash |-> hash_password(password), last_login |-> None,
   is_active |-> 1, is_moderator |-> 0]

create_user(username, email, password) ==
  LET v == CreateUserValidation(username, email, password)
      u == Strip(username)
      e == Strip(email)
      c == UsersUniqueViolation(u, e)
      args == [username |-> username, email |-> email, password |-> password]
  IN  /\ (v = OK /\ c = "none") => Len(users) < MaxUsers
      /\ IF v # OK
         THEN /\ last' = [op |-> "create_user", args |-> args, outcome |-> v, ret |-> None]
              /\ UNCHANGED users
         ELSE IF c # "none"
         THEN /\ last' = [op |-> "create_user", args |-> args,
                          outcome |-> IntegrityErrorMessage(c), ret |-> None]
              /\ UNCHANGED users
         ELSE /\ users' = Append(users, NewUser(u, e, password))
              /\ last' = [op |-> "create_user", args |-> args, outcome |-> OK,
                          ret |-> Some(Len(users) + 1)]
      /\ UNCHANGED <<mods, comments, downloads, mod_categories, categories, now, txnvars, patchvars, sharevars>>

\* The SELECT of authenticate_user without the test of the password hash
AuthMatches_AnyPassword(ident, password) ==
  {i \in UserIds : /\ users[i].username = ident \/ users[i].email = ident
                   /\ users[i].is_active = 1}

\* SELECT ... WHERE (username = ? OR email = ?) AND password_hash = ? AND is_active = 1
AuthMatches(ident, password) ==
  {i \in UserIds : /\ users[i].username = ident \/ users[i].email = ident
                   /\ users[i].password_hash = hash_password(password)
                   /\ users[i].is_active = 1}

\* The parameters handed to the UPDATE of last_login: "(user[0])" is the bare
\* integer, not a one-element tuple.
LastLoginParams(uid) == [type |-> "int", value |-> uid]

\* sqlite3 accepts a sequence (or mapping) of parameters only
ParamsSupported(params) == params.type \in {"tuple", "list", "dict"}

UserResult(u) ==
  [id |-> u.id, username |-> u.username, email |-> u.email,
   is_active |-> u.is_active, is_moderator |-> u.is_moderator]

authenticate_user(ident, password) ==
  LET m == AuthMatches(ident, password)
      args == [username_or_email |-> ident, password |-> password]
  IN  /\ IF m = {}
         THEN /\ last' = [op |-> "authenticate", args |-> args, outcome |-> OK, ret |-> None]
              /\ UNCHANGED users
         ELSE \E uid \in m :
                LET params == LastLoginParams(uid) IN
                IF ParamsSupported(params)
                THEN /\ users' = [users EXCEPT ![params.value].last_login = Some(now)]
                     /\ last' = [op |-> "authenticate", args |-> args, outcome |-> OK,
                                 ret |-> Some(UserResult(users[uid]))]
                ELSE /\ last' = [op |-> "authenticate", args |-> args,
                                 outcome |-> ProgrammingError, ret |-> None]
                     /\ UNCHANGED users
      /\ UNCHANGED <<mods, comments, downloads, mod_categories, categories, now, txnvars, patchvars, sharevars>>

\* CURRENT_TIMESTAMP advances between operations
Tick ==
  /\ now < MaxTime
  /\ now' = now + 1
  /\ UNCHANGED <<users, mods, comments, downloads, mod_categories, categories, last, txnvars, patchvars, sharevars>>

----------------------------------------------------------------------------
(* Mod listings *)

ErrTitleEmpty == "Mod title cannot be empty"
ErrFileMissing == "Mod file does not exist"
ErrCompatEmpty == "Game compatibility is required"
FileTooLarge == "File too large. Maximum size is 100MB."

\* max_size = 100 * 1024 * 1024
MaxUploadSize == 100 * 1024 * 1024

\* The files on disk and their sizes in bytes (os.path.exists, os.path.getsize)
Disk ==
  [small |-> 51200, exact |-> 104857600, over |-> 104857601, big |-> 105906176]

PathExists(path) == path \in DOMAIN Disk
GetSize(path) == Disk[path]

T_hat == <<"H", "a", "t">>
T_map == <<"m", "a", "p">>
G_game == <<"G", "1">>

ModIds == 1..Len(mods)

\* Python bool bound to a BOOLEAN column
BoolToInt(b) == IF b THEN 1 ELSE 0

UploadValidation_Inclusive(title, file_path, game_compatibility) ==
  IF title = <<>> \/ Strip(title) = <<>> THEN ErrTitleEmpty
  ELSE IF file_path = "" \/ ~PathExists(file_path) THEN ErrFileMissing
  ELSE IF game_compatibility = <<>> \/ Strip(game_compatibility) = <<>> THEN ErrCompatEmpty
  ELSE IF GetSize(file_path) >= MaxUploadSize THEN FileTooLarge
  ELSE OK

\* upload_mod, input validation in the order of the code
UploadValidation(title, file_path, game_compatibility) ==
  IF title = <<>> \/ Strip(title) = <<>> THEN ErrTitleEmpty
  ELSE IF file_path = "" \/ ~PathExists(file_path) THEN ErrFileMissing
  ELSE IF game_compatibility = <<>> \/ Strip(game_compatibility) = <<>> THEN ErrCompatEmpty
  ELSE IF GetSize(file_path) > MaxUploadSize THEN FileTooLarge
  ELSE OK

NewMod(title, description, author_id, file_path, game_compatibility, tags, is_public) ==
  [id |-> Len(mods) + 1, title |-> Strip(title), description |-> Strip(description),
   author_id |-> author_id, file_path |-> file_path, file_size |-> GetSize(file_path),
   upload_date |-> now, download_count |-> 0, rating |-> [num |-> 0, den |-> 1],
   rating_count |-> 0, is_public |-> BoolToInt(is_public),
   game_compatibility |-> Strip(game_compatibility), tags |-> Strip(tags)]

upload_mod(title, description, author_id, file_path, game_compatibility, tags, is_public) ==
  LET v == UploadValidation(title, file_path, game_compatibility)
      args == [title |-> title, author_id |-> author_id, file_path |-> file_path,
               game_compatibility |-> game_compatibility, is_public |-> is_public]
  IN  /\ v = OK => Len(mods) < MaxMods
      /\ IF v # OK
         THEN /\ last' = [op |-> "upload_mod", args |-> args, outcome |-> v, ret |-> None]
              /\ UNCHANGED mods
         ELSE /\ mods' = Append(mods, NewMod(title, description, author_id, file_path,
                                             game_compatibility, tags, is_public))
              /\ last' = [op |-> "upload_mod", args |-> args, outcome |-> OK,
                          ret |-> Some(Len(mods) + 1)]
      /\ UNCHANGED <<users, comments, downloads, mod_categories, categories, now, txnvars, patchvars, sharevars>>

----------------------------------------------------------------------------
(* Text comparison and LIKE *)

LowerLetters ==
  <<"a", "b", "c", "d", "e", "f", "g", "h", "i", "j", "k", "l", "m",
    "n", "o", "p", "q", "r", "s", "t", "u", "v", "w", "x", "y", "z">>
UpperLetters ==
  <<"A", "B", "C", "D", "E", "F", "G", "H", "I", "J", "K", "L", "M",
    "N", "O", "P", "Q", "R", "S", "T", "U", "V", "W", "X", "Y", "Z">>

\* ASCII code of a character
Ord(c) ==
  IF \E i \in 1..26 : LowerLetters[i] = c
  THEN 96 + (CHOOSE i \in 1..26 : LowerLetters[i] = c)
  ELSE IF \E i \in 1..26 : UpperLetters[i] = c
  THEN 64 + (CHOOSE i \in 1..26 : UpperLetters[i] = c)
  ELSE CASE c = " " -> 32 [] c = "%" -> 37 [] c = "." -> 46 [] c = "1" -> 49
         [] c = "@" -> 64 [] c = "_" -> 95 [] OTHER -> 0

\* ASCII case folding, as LIKE does
Fold(c) == IF Ord(c) >= 65 /\ Ord(c) <= 90 THEN LowerLetters[Ord(c) - 64] ELSE c

\* BINARY collation: -1, 0 or 1
RECURSIVE CmpText(_, _)
CmpText(a, b) ==
  IF a = <<>> /\ b = <<>> THEN 0
  ELSE IF a = <<>> THEN -1
  ELSE IF b = <<>> THEN 1
  ELSE IF Ord(Head(a)) < Ord(Head(b)) THEN -1
  ELSE IF Ord(Head(a)) > Ord(Head(b)) THEN 1
  ELSE CmpText(Tail(a), Tail(b))

CmpInt(a, b) == IF a < b THEN -1 ELSE IF a > b THEN 1 ELSE 0

\* REAL values are kept as fractions num/den with den > 0
CmpReal(a, b) == CmpInt(a.num * b.den, b.num * a.den)

\* text LIKE pattern: % matches any run, _ any one character
RECURSIVE Like(_, _)
Like(pattern, text) ==
  IF pattern = <<>> THEN text = <<>>
  ELSE IF Head(pattern) = "%"
  THEN Like(Tail(pattern), text) \/ (text # <<>> /\ Like(pattern, Tail(text)))
  ELSE IF text = <<>> THEN FALSE
  ELSE /\ Head(pattern) = "_" \/ Fold(Head(pattern)) = Fold(Head(text))
       /\ Like(Tail(pattern), Tail(text))

----------------------------------------------------------------------------
(* Listing query *)

\* Columns of the mods table
ModColumns ==
  {"id", "title", "description", "author_id", "file_path", "file_size",
   "upload_date", "download_count", "rating", "rating_count", "is_public",
   "is_featured", "game_compatibility", "version", "tags", "thumbnail_path"}

TextColumns == {"title", "description", "file_path", "game_compatibility", "tags"}

\* The sort keys the mod browser offers
SortChoices == {"upload_date", "download_count", "rating", "title"}

Truthy_Never(opt) == FALSE

\* "if category_id:" / "if search_query:" on an optional integer
Truthy(opt) == opt # None /\ opt[1] # 0

\* WHERE m.is_public = 1 [AND m.id IN (SELECT mod_id FROM mod_categories ...)]
\* [AND (m.title LIKE ? OR m.description LIKE ? OR m.tags LIKE ?)], over
\* mods JOIN users ON m.author_id = u.id
ModsWhere_NoPublicFilter(category_id, search_query) ==
  {i \in ModIds :
     /\ mods[i].author_id \in UserIds
     /\ Truthy(category_id) => <<i, category_id[1]>> \in mod_categories
     /\ search_query # <<>> =>
          LET search_term == <<"%">> \o search_query \o <<"%">>
          IN  \/ Like(search_term, mods[i].title)
              \/ Like(search_term, mods[i].description)
              \/ Like(search_term, mods[i].tags)}

ModsWhere(category_id, search_query) ==
  {i \in ModIds :
     /\ mods[i].author_id \in UserIds
     /\ mods[i].is_public = 1
     /\ Truthy(category_id) => <<i, category_id[1]>> \in mod_categories
     /\ search_query # <<>> =>
          LET search_term == <<"%">> \o search_query \o <<"%">>
          IN  \/ Like(search_term, mods[i].title)
              \/ Like(search_term, mods[i].description)
              \/ Like(search_term, mods[i].tags)}

\* f' ORDER BY m.{sort_by} {sort_order} LIMIT ? OFFSET ?' as SQLite parses it
\* for the values of the model: the ordering terms, or a failed prepare.
OrderBy(sort_by, sort_order) ==
  IF sort_order \notin {"ASC", "DESC"} THEN [err |-> TRUE, terms |-> <<>>]
  ELSE IF sort_by \in ModColumns
  THEN [err |-> FALSE, terms |-> <<[col |-> sort_by, dir |-> sort_order]>>]
  ELSE IF sort_by = "id, m.title"
  THEN [err |-> FALSE, terms |-> <<[col |-> "id", dir |-> "ASC"],
                                   [col |-> "title", dir |-> sort_order]>>]
  ELSE [err |-> TRUE, terms |-> <<>>]

\* Comparison of two rows on one column; columns the model does not carry
\* hold the same default in every row
CmpCol(col, a, b) ==
  IF col \notin DOMAIN a THEN 0
  ELSE IF col \in TextColumns THEN CmpText(a[col], b[col])
  ELSE IF col = "rating" THEN CmpReal(a[col], b[col])
  ELSE CmpInt(a[col], b[col])

RECURSIVE CmpTerms(_, _, _)
CmpTerms(terms, a, b) ==
  IF terms = <<>> THEN 0
  ELSE LET c == CmpCol(Head(terms).col, a, b)
           d == IF Head(terms).dir = "DESC" THEN 0 - c ELSE c
       IN  IF d # 0 THEN d ELSE CmpTerms(Tail(terms), a, b)

\* The orders in which the rows S can come out of ORDER BY terms: rows that
\* compare equal come in any order
SortedOrders(S, terms) ==
  {f \in [1..Cardinality(S) -> S] :
     /\ \A i, j \in 1..Cardinality(S) : i # j => f[i] # f[j]
     /\ \A i, j \in 1..Cardinality(S) :
          i < j => CmpTerms(terms, mods[f[i]], mods[f[j]]) <= 0}

\* LIMIT ? OFFSET ?  (a negative limit is no limit, a negative offset is 0)
Page(seq, limit, offset) ==
  LET off == IF offset < 0 THEN 0 ELSE offset
      hi == IF limit < 0 \/ off + limit > Len(seq) THEN Len(seq) ELSE off + limit
  IN  SubSeq(seq, off + 1, hi)

ModSummary(i) ==
  [id |-> mods[i].id, title |-> mods[i].title, description |-> mods[i].description,
   upload_date |-> mods[i].upload_date, download_count |-> mods[i].download_count,
   rating |-> mods[i].rating, rating_count |-> mods[i].rating_count,
   game_compatibility |-> mods[i].game_compatibility,
   author_name |-> users[mods[i].author_id].username]

get_mods(limit, offset, category_id, search_query, sort_by, sort_order) ==
  LET ob == OrderBy(sort_by, sort_order)
      args == [limit |-> limit, offset |-> offset, category_id |-> category_id,
               search_query |-> search_query, sort_by |-> sort_by,
               sort_order |-> sort_order]
  IN  /\ IF ob.err
         THEN last' = [op |-> "get_mods", args |-> args, outcome |-> OperationalError,
                       ret |-> None]
         ELSE \E f \in SortedOrders(ModsWhere(category_id, search_query), ob.terms) :
                last' = [op |-> "get_mods", args |-> args, outcome |-> OK,
                         ret |-> Page([i \in DOMAIN f |-> ModSummary(f[i])], limit, offset)]
      /\ UNCHANGED <<users, mods, comments, downloads, mod_categories, categories, now, txnvars, patchvars, sharevars>>

----------------------------------------------------------------------------
(* Comments, ratings and downloads *)

ErrCommentEmpty == "Comment cannot be empty"
ErrRatingRange == "Rating must be between 1 and 5"
ErrModNotFound == "Mod not found"
ErrUserNotFound == "User not found"

C_nice == <<"n", "i", "c", "e">>

\* add_comment, input validation without the range test of the rating
CommentValidation_NoRange(comment, rating) ==
  IF comment = <<>> \/ Strip(comment) = <<>> THEN ErrCommentEmpty ELSE OK

\* add_comment, input validation
CommentValidation(comment, rating) ==
  IF comment = <<>> \/ Strip(comment) = <<>> THEN ErrCommentEmpty
  ELSE IF rating # None /\ (rating[1] < 1 \/ rating[1] > 5) THEN ErrRatingRange
  ELSE OK

\* INSERT INTO comments (mod_id, user_id, comment, rating)
InsertComment(cs, mod_id, user_id, comment, rating) ==
  Append(cs, [id |-> Len(cs) + 1, mod_id |-> mod_id, user_id |-> user_id,
              comment |-> Strip(comment), rating |-> rating, is_approved |-> 1])

\* FROM comments WHERE mod_id = ? AND rating IS NOT NULL
RatedComments_AnyMod(cs, mod_id) ==
  {i \in 1..Len(cs) : cs[i].rating # None}

RatedComments(cs, mod_id) ==
  {i \in 1..Len(cs) : cs[i].mod_id = mod_id /\ cs[i].rating # None}

RECURSIVE SumRatings(_, _)
SumRatings(cs, S) ==
  IF S = {} THEN 0
  ELSE LET i == CHOOSE x \in S : TRUE IN cs[i].rating[1] + SumRatings(cs, S \ {i})

\* SELECT AVG(rating): the sum over the count, as a fraction
AvgRating(cs, mod_id) ==
  [num |-> SumRatings(cs, RatedComments(cs, mod_id)),
   den |-> Cardinality(RatedComments(cs, mod_id))]

\* UPDATE mods SET rating = (SELECT AVG ...), rating_count = (SELECT COUNT(*) ...)
\* WHERE id = ?
UpdateModRating(ms, cs, mod_id) ==
  [i \in DOMAIN ms |->
     IF ms[i].id = mod_id
     THEN [ms[i] EXCEPT !.rating = AvgRating(cs, mod_id),
                        !.rating_count = Cardinality(RatedComments(cs, mod_id))]
     ELSE ms[i]]

add_comment(mod_id, user_id, comment, rating) ==
  LET v == CommentValidation(comment, rating)
      args == [mod_id |-> mod_id, user_id |-> user_id, comment |-> comment,
               rating |-> rating]
      outcome == IF v # OK THEN v
                 ELSE IF mod_id \notin ModIds THEN ErrModNotFound
                 ELSE IF user_id \notin UserIds THEN ErrUserNotFound
                 ELSE OK
      cs == InsertComment(comments, mod_id, user_id, comment, rating)
  IN  /\ outcome = OK => Len(comments) < MaxComments
      /\ last' = [op |-> "add_comment", args |-> args, outcome |-> outcome, ret |-> None]
      /\ IF outcome # OK
         THEN UNCHANGED <<comments, mods>>
         ELSE /\ comments' = cs
              /\ mods' = IF Truthy(rating) THEN UpdateModRating(mods, cs, mod_id) ELSE mods
      /\ UNCHANGED <<users, downloads, mod_categories, categories, now, txnvars, patchvars, sharevars>>

\* INSERT INTO downloads (mod_id, user_id, ip_address)
InsertDownload(ds, mod_id, user_id) ==
  Append(ds, [id |-> Len(ds) + 1, mod_id |-> mod_id, user_id |-> user_id])

IncrementDownloads_NoMatch(ms, mod_id) == ms

\* UPDATE mods SET download_count = download_count + 1 WHERE id = ?
IncrementDownloads(ms, mod_id) ==
  [i \in DOMAIN ms |->
     IF ms[i].id = mod_id
     THEN [ms[i] EXCEPT !.download_count = ms[i].download_count + 1]
     ELSE ms[i]]

record_download(mod_id, user_id) ==
  /\ Len(downloads) < MaxDownloads
  /\ downloads' = InsertDownload(downloads, mod_id, user_id)
  /\ mods' = IncrementDownloads(mods, mod_id)
  /\ last' = [op |-> "record_download", args |-> [mod_id |-> mod_id, user_id |-> user_id],
              outcome |-> OK, ret |-> None]
  /\ UNCHANGED <<users, comments, mod_categories, categories, now, txnvars, patchvars, sharevars>>

\* SELECT m.*, u.username ... WHERE m.id = ?, then the approved comments of
\* the mod whose authors exist; the comments are kept as the set of their ids
ModDetails(i) ==
  [id |-> mods[i].id, title |-> mods[i].title, author_id |-> mods[i].author_id,
   download_count |-> mods[i].download_count, rating |-> mods[i].rating,
   rating_count |-> mods[i].rating_count, is_public |-> mods[i].is_public,
   author_name |-> users[mods[i].author_id].username,
   comments |-> {c \in 1..Len(comments) :
                   /\ comments[c].mod_id = i
                   /\ comments[c].is_approved = 1
                   /\ comments[c].user_id \in UserIds}]

get_mod_details(mod_id) ==
  /\ last' = [op |-> "get_mod_details", args |-> [mod_id |-> mod_id], outcome |-> OK,
              ret |-> IF mod_id \in ModIds /\ mods[mod_id].author_id \in UserIds
                      THEN Some(ModDetails(mod_id))
                      ELSE None]
  /\ UNCHANGED <<users, mods, comments, downloads, mod_categories, categories, now,
                 txnvars, patchvars, sharevars>>

----------------------------------------------------------------------------
(* Concurrent callers.  Every operation opens its own connection; the first *)
(* INSERT or UPDATE on it begins a transaction and takes the database write *)
(* lock; the statements of the transaction change the connection's image of *)
(* the tables, which replaces the committed tables at commit.               *)

Callers == 1..NumCallers

IdleConn == [pc |-> "idle", args |-> <<>>, image |-> <<>>]

\* The tables as the connection sees them when its transaction begins
Snapshot == [mods |-> mods, comments |-> comments, downloads |-> downloads]

\* "with sqlite3.connect(...) as conn": the tables after the block is left
\* normally (commit) or by an exception (rollback)
OnSuccess(image, committed) == image

OnException_Commit(image, committed) == image

OnException(image, committed) == committed

\* record_download: INSERT INTO downloads, which begins the transaction
RD_Insert(p, mod_id) ==
  /\ conn[p].pc = "idle"
  /\ dblock = 0
  /\ Len(downloads) < MaxDownloads
  /\ dblock' = p
  /\ conn' = [conn EXCEPT ![p] =
       [pc |-> "rd_inserted", args |-> [mod_id |-> mod_id],
        image |-> [Snapshot EXCEPT !.downloads = InsertDownload(downloads, mod_id, None)]]]
  /\ UNCHANGED <<regvars, returned, patchvars, sharevars>>

\* record_download: UPDATE mods SET download_count = download_count + 1
RD_Update(p) ==
  /\ conn[p].pc = "rd_inserted"
  /\ conn' = [conn EXCEPT ![p].pc = "rd_updated",
                          ![p].image.mods = IncrementDownloads(@, conn[p].args.mod_id)]
  /\ UNCHANGED <<regvars, dblock, returned, patchvars, sharevars>>

\* add_comment: validation and the two SELECTs that verify mod and user
AC_Verify(p, mod_id, user_id, comment, rating) ==
  /\ conn[p].pc = "idle"
  /\ CommentValidation(comment, rating) = OK
  /\ mod_id \in ModIds
  /\ user_id \in UserIds
  /\ conn' = [conn EXCEPT ![p] =
       [pc |-> "ac_verified",
        args |-> [mod_id |-> mod_id, user_id |-> user_id, comment |-> comment,
                  rating |-> rating],
        image |-> <<>>]]
  /\ UNCHANGED <<regvars, dblock, returned, patchvars, sharevars>>

\* add_comment: INSERT INTO comments, which begins the transaction
AC_Insert(p) ==
  /\ conn[p].pc = "ac_verified"
  /\ dblock = 0
  /\ Len(comments) < MaxTxnComments
  /\ dblock' = p
  /\ conn' = [conn EXCEPT ![p].pc = "ac_inserted",
                          ![p].image =
       [Snapshot EXCEPT !.comments =
          InsertComment(comments, conn[p].args.mod_id, conn[p].args.user_id,
                        conn[p].args.comment, conn[p].args.rating)]]
  /\ UNCHANGED <<regvars, returned, patchvars, sharevars>>

\* add_comment: "if rating:" UPDATE mods SET rating = ..., rating_count = ...
AC_Update(p) ==
  /\ conn[p].pc = "ac_inserted"
  /\ conn' = [conn EXCEPT ![p].pc = "ac_updated",
                          ![p].image.mods =
       IF Truthy(conn[p].args.rating)
       THEN UpdateModRating(@, conn[p].image.comments, conn[p].args.mod_id)
       ELSE @]
  /\ UNCHANGED <<regvars, dblock, returned, patchvars, sharevars>>

\* conn.commit() and the normal exit of the with block
Commit(p) ==
  /\ conn[p].pc \in {"rd_updated", "ac_updated"}
  /\ LET after == OnSuccess(conn[p].image, Snapshot)
     IN  /\ mods' = after.mods
         /\ comments' = after.comments
         /\ downloads' = after.downloads
  /\ returned' = IF conn[p].pc = "rd_updated" /\ conn[p].args.mod_id \in DOMAIN returned
                 THEN [returned EXCEPT ![conn[p].args.mod_id] = @ + 1]
                 ELSE returned
  /\ dblock' = 0
  /\ conn' = [conn EXCEPT ![p] = IdleConn]
  /\ UNCHANGED <<users, mod_categories, categories, now, last, patchvars, sharevars>>

\* A statement or the commit raises (disk full, I/O error): the with block
\* is left by the exception, which the method logs and re-raises
Fail(p) ==
  /\ conn[p].pc \in {"rd_inserted", "rd_updated", "ac_inserted", "ac_updated"}
  /\ LET after == OnException(conn[p].image, Snapshot)
     IN  /\ mods' = after.mods
         /\ comments' = after.comments
         /\ downloads' = after.downloads
  /\ dblock' = 0
  /\ conn' = [conn EXCEPT ![p] = IdleConn]
  /\ UNCHANGED <<users, mod_categories, categories, now, last, returned, patchvars, sharevars>>

\* The write lock is held by another connection until the busy timeout
\* expires: the first write raises "database is locked"
Busy(p) ==
  /\ conn[p].pc = "ac_verified"
  /\ dblock \notin {0, p}
  /\ conn' = [conn EXCEPT ![p] = IdleConn]
  /\ UNCHANGED <<regvars, dblock, returned, patchvars, sharevars>>

\* get_mod_details: the SELECT of the mod row.  A SELECT begins no
\* transaction on the connection, so each of the two SELECTs of the method
\* reads the tables as committed when it runs
GD_SelectMod(p, mod_id) ==
  /\ conn[p].pc = "idle"
  /\ IF mod_id \in ModIds /\ mods[mod_id].author_id \in UserIds
     THEN /\ conn' = [conn EXCEPT ![p] =
                 [pc |-> "gd_mod_read", args |-> [mod_id |-> mod_id],
                  image |-> ModDetails(mod_id)]]
          /\ UNCHANGED last
     ELSE /\ last' = [op |-> "get_mod_details", args |-> [mod_id |-> mod_id],
                      outcome |-> OK, ret |-> None]
          /\ UNCHANGED conn
  /\ UNCHANGED <<users, mods, comments, downloads, mod_categories, categories, now,
                 dblock, returned, patchvars, sharevars>>

\* get_mod_details: the SELECT of the comments, and the result built from
\* the row read before and the comments read now
GD_SelectComments(p) ==
  /\ conn[p].pc = "gd_mod_read"
  /\ last' = [op |-> "get_mod_details", args |-> conn[p].args, outcome |-> OK,
              ret |-> Some([conn[p].image EXCEPT
                              !.comments = ModDetails(conn[p].args.mod_id).comments])]
  /\ conn' = [conn EXCEPT ![p] = IdleConn]
  /\ UNCHANGED <<users, mods, comments, downloads, mod_categories, categories, now,
                 dblock, returned, patchvars, sharevars>>

----------------------------------------------------------------------------
(* The WiiWare modder: paths and the files on disk *)

\* Position of the last occurrence of c in s, 0 when there is none
RECURSIVE rfind(_, _)
rfind(s, c) ==
  IF s = <<>> THEN 0
  ELSE IF s[Len(s)] = c THEN Len(s)
  ELSE rfind(SubSeq(s, 1, Len(s) - 1), c)

\* os.path.basename
basename(p) == SubSeq(p, rfind(p, "/") + 1, Len(p))

\* os.path.dirname
dirname(p) == SubSeq(p, 1, rfind(p, "/") - 1)

\* os.path.splitext: <<root, ext>>; the extension starts at the last dot of
\* the last component, the leading dots of the component do not count
splitext(p) ==
  LET sep == rfind(p, "/")
      dot == rfind(p, ".")
  IN  IF dot > sep /\ (\E i \in (sep + 1)..(dot - 1) : p[i] # ".")
      THEN <<SubSeq(p, 1, dot - 1), SubSeq(p, dot, Len(p))>>
      ELSE <<p, <<>>>>

\* str.lower()
lower(s) == [i \in 1..Len(s) |-> Fold(s[i])]

\* os.path.join of two components
join(a, b) ==
  IF b # <<>> /\ Head(b) = "/" THEN b
  ELSE IF a = <<>> \/ a[Len(a)] = "/" THEN a \o b
  ELSE a \o <<"/">> \o b

\* datetime.now().strftime("%Y%m%d_%H%M%S") of the clock value t
strftime(t) == <<ToString(t)>>

\* Source files of the model: two that exist and one that does not
F_a == <<"a", ".", "w", "a", "d">>
F_b == <<"b", ".", "w", "a", "d">>
F_gone == <<"g", ".", "w", "a", "d">>

\* Patch files of the model: one of each supported format, one with another
\* extension (all on disk) and one that is not on disk
PF_ips == <<"p", ".", "i", "p", "s">>
PF_BPS == <<"p", ".", "B", "P", "S">>
PF_patch == <<"p", ".", "p", "a", "t", "c", "h">>
PF_xyz == <<"p", ".", "x", "y", "z">>
PF_missing == <<"q", ".", "i", "p", "s">>

\* Directories of the model: an output directory, an output directory whose
\* batch_patch_log.txt cannot be written, and a path that is no directory
D_out == <<"o", "u", "t">>
D_ro == <<"r", "o">>
D_nodir == <<"n", "o", "d", "i", "r">>

\* self.config['backup_directory'], created by load_config
BackupDirectory == <<"b", "a", "c", "k", "u", "p", "s", "/">>

LogName ==
  <<"b", "a", "t", "c", "h", "_", "p", "a", "t", "c", "h", "_", "l", "o", "g",
    ".", "t", "x", "t">>
ErrorLogName ==
  <<"b", "a", "t", "c", "h", "_", "p", "a", "t", "c", "h", "_", "e", "r", "r",
    "o", "r", "s", ".", "t", "x", "t">>

\* The directories that exist (<<>> is the working directory)
Directories == {<<>>, <<"b", "a", "c", "k", "u", "p", "s">>, D_out, D_ro}

\* Files that exist but that the process may not open for writing
ReadOnlyFiles == {join(D_ro, LogName)}

\* The files on disk when the application starts
InitialFiles ==
  [p \in {F_a, F_b, PF_ips, PF_BPS, PF_patch, PF_xyz, join(D_ro, LogName)} |->
     CASE p = F_a -> <<"A", "A">>
       [] p = F_b -> <<"B">>
       [] p = PF_ips -> <<"P", "A", "T", "C", "H", "x", "E", "O", "F">>
       [] p = PF_BPS -> <<"B", "P", "S", "1">>
       [] p = PF_patch -> <<"d", "i", "f", "f">>
       [] p = PF_xyz -> <<"z", "z">>
       [] OTHER -> <<>>]

\* os.path.exists
exists(fs, p) == p \in DOMAIN fs \/ p \in Directories

\* open(p, 'wb') / open(p, 'a') succeeds
Writable(p) == dirname(p) \in Directories /\ p \notin ReadOnlyFiles /\ p \notin Directories

\* The file system after p was written with data
Write(fs, p, data) == [q \in DOMAIN fs \cup {p} |-> IF q = p THEN data ELSE fs[q]]

Raised(fs) == [raised |-> TRUE, files |-> fs]
Returned(fs) == [raised |-> FALSE, files |-> fs]

\* shutil.copy2(src, dst)
copy2(fs, src, dst) ==
  IF src \in DOMAIN fs /\ Writable(dst) THEN Returned(Write(fs, dst, fs[src]))
  ELSE Raised(fs)

\* with open(p, 'a') as f: f.write(line)
append(fs, p, line) ==
  IF Writable(p)
  THEN Returned(Write(fs, p, (IF p \in DOMAIN fs THEN fs[p] ELSE <<>>) \o <<line>>))
  ELSE Raised(fs)

----------------------------------------------------------------------------
(* The WiiWare modder: applying a patch to the selected file *)

\* The thread of root.mainloop(), on which Tk runs the handlers, and the
\* thread started by threading.Thread(target=...)
MainThread == "MainThread"
WorkerThread == "Thread-1"

NoDialog == [level |-> "none", text |-> ""]
ShowError(text) == [level |-> "error", text |-> text]
ShowInfo(text) == [level |-> "info", text |-> text]

SelectFileFirst == "Please select a file to patch"
SelectPatchFirst == "Please select a patch file"
BackupError == "Failed to create backup"
FileError == "File error"
UnsupportedFormat == "Invalid patch format"
PatchApplied == "Patch applied successfully!"

SupportedFormats ==
  {<<".", "i", "p", "s">>, <<".", "b", "p", "s">>, <<".", "p", "a", "t", "c", "h">>}

\* A progress value: the float num / den
Percent(num, den) == [num |-> num, den |-> den]

\* update_patch_history_display: the listbox is emptied and filled again,
\* which leaves no entry selected
update_patch_history_display == None

\* create_backup: the path of the copy and the file system after it
create_backup(fs) ==
  copy2(fs, current_file[1], join(BackupDirectory,
        <<"b", "a", "c", "k", "u", "p", "_">> \o strftime(now) \o <<".", "b", "a", "k">>))

\* apply_patch: the Apply Patch button
apply_patch ==
  /\ patcher = "idle"
  /\ IF current_file = None
     THEN /\ dialog' = ShowError(SelectFileFirst)
          /\ UNCHANGED <<files, patcher>>
     ELSE IF patch_file_var = <<>>
     THEN /\ dialog' = ShowError(SelectPatchFirst)
          /\ UNCHANGED <<files, patcher>>
     ELSE /\ IF backup_before_patch
             THEN LET b == create_backup(files)
                  IN  /\ files' = b.files
                      /\ dialog' = IF b.raised THEN ShowError(BackupError) ELSE dialog
             ELSE UNCHANGED <<files, dialog>>
          /\ patcher' = "running"
  /\ UNCHANGED <<current_file, patch_file_var, backup_before_patch, patch_history,
                 history_selection, batchvars, regvars, txnvars, sharevars>>
  /\ ui_caller' = MainThread

\* The PatchRecord appended by _apply_patch_thread
PatchRecord(original_file, patch_file) ==
  [timestamp |-> strftime(now),
   original_file |-> original_file,
   patch_file |-> patch_file,
   backup_file |-> BackupDirectory \o <<"b", "a", "c", "k", "u", "p", "_">>
                   \o strftime(now) \o <<".", "b", "a", "k">>]

\* _apply_patch_thread: the worker thread started by apply_patch
apply_patch_thread ==
  /\ patcher = "running"
  /\ patcher' = "idle"
  /\ LET patch_file == patch_file_var
         original_file == current_file
     IN  IF patch_file = <<>> \/ ~exists(files, patch_file)
         THEN /\ dialog' = ShowError(FileError)
              /\ operation_progress' = Percent(0, 1)
              /\ UNCHANGED <<patch_history, history_selection>>
         ELSE IF original_file = None \/ ~exists(files, original_file[1])
         THEN /\ dialog' = ShowError(FileError)
              /\ operation_progress' = Percent(0, 1)
              /\ UNCHANGED <<patch_history, history_selection>>
         ELSE IF lower(splitext(patch_file)[2]) \notin SupportedFormats
         THEN /\ dialog' = ShowError(UnsupportedFormat)
              /\ operation_progress' = Percent(0, 1)
              /\ UNCHANGED <<patch_history, history_selection>>
         ELSE /\ Len(patch_history) < MaxHistory
              /\ patch_history' = Append(patch_history,
                                         PatchRecord(original_file[1], patch_file))
              /\ history_selection' = update_patch_history_display
              /\ operation_progress' = Percent(100, 1)
              /\ dialog' = ShowInfo(PatchApplied)
  /\ UNCHANGED <<files, current_file, patch_file_var, backup_before_patch,
                 batch_files, batch_output_var, batch_patch_file_var,
                 batch_operation, worker, regvars, txnvars, sharevars>>
  /\ ui_caller' = WorkerThread

\* browse_file: the file dialog returned filename
browse_file(filename) ==
  /\ current_file' = Some(filename)
  /\ UNCHANGED <<files, dialog, patch_file_var, backup_before_patch, patch_history,
                 history_selection, patcher, batchvars, regvars, txnvars, sharevars>>
  /\ ui_caller' = MainThread

\* browse_patch_file, or typing into the entry bound to patch_file_var
browse_patch_file(filename) ==
  /\ patch_file_var' = filename
  /\ UNCHANGED <<files, dialog, current_file, backup_before_patch, patch_history,
                 history_selection, patcher, batchvars, regvars, txnvars, sharevars>>
  /\ ui_caller' = MainThread

\* The "backup before patch" check button
toggle_backup ==
  /\ backup_before_patch' = ~backup_before_patch
  /\ UNCHANGED <<files, dialog, current_file, patch_file_var, patch_history,
                 history_selection, patcher, batchvars, regvars, txnvars, sharevars>>
  /\ ui_caller' = MainThread

\* Selecting an entry of the patch history listbox
select_history(i) ==
  /\ i \in 1..Len(patch_history)
  /\ history_selection' = Some(i)
  /\ UNCHANGED <<files, dialog, current_file, patch_file_var, backup_before_patch,
                 patch_history, patcher, batchvars, regvars, txnvars, sharevars>>
  /\ ui_caller' = MainThread

ShowWarning(text) == [level |-> "warning", text |-> text]

SelectPatchToRevert == "Please select a patch to revert"
RevertFailed == "Failed to revert patch"
BackupMissing == "Backup file not found. Cannot revert patch."
PatchReverted == "Patch reverted successfully!"

\* The attributes of the WiiWareModder that name the listbox of the patch
\* history: create_patching_tab sets self.patch_history_list only
HistoryWidgets == {"patch_history_list"}

\* list.pop(i)
Pop(s, i) == SubSeq(s, 1, i - 1) \o SubSeq(s, i + 1, Len(s))

\* revert_patch: the Revert Patch button; confirm is the answer to askyesno
revert_patch(confirm) ==
  /\ IF history_selection = None
     THEN /\ dialog' = ShowWarning(SelectPatchToRevert)
          /\ UNCHANGED <<files, patch_history, history_selection>>
     ELSE IF ~confirm
     THEN UNCHANGED <<files, dialog, patch_history, history_selection>>
     ELSE IF "patch_history_listbox" \notin HistoryWidgets
     THEN \* AttributeError, caught by the handler of the method
          /\ dialog' = ShowError(RevertFailed)
          /\ UNCHANGED <<files, patch_history, history_selection>>
     ELSE LET patch_record == patch_history[history_selection[1]]
              backup_file == patch_record.backup_file
              restored == IF current_file = None THEN Raised(files)
                          ELSE copy2(files, backup_file, current_file[1])
          IN  IF backup_file # <<>> /\ exists(files, backup_file)
              THEN IF restored.raised
                   THEN /\ dialog' = ShowError(RevertFailed)
                        /\ UNCHANGED <<files, patch_history, history_selection>>
                   ELSE /\ files' = restored.files
                        /\ patch_history' = Pop(patch_history, history_selection[1])
                        /\ history_selection' = update_patch_history_display
                        /\ dialog' = ShowInfo(PatchReverted)
              ELSE /\ dialog' = ShowError(BackupMissing)
                   /\ UNCHANGED <<files, patch_history, history_selection>>
  /\ UNCHANGED <<current_file, patch_file_var, backup_before_patch, patcher,
                 batchvars, regvars, txnvars, sharevars>>
  /\ ui_caller' = MainThread

----------------------------------------------------------------------------
(* The WiiWare modder: batch processing *)

NoBatchFiles == "No files selected for batch processing"
NoOutputDirectory == "Please select an output directory"
BatchFailed == "Batch processing failed"
BatchCompleted == "Batch processing completed successfully!"

\* self.wit_path when the wit tool is not installed
WitPath == None

PatchHeader == <<"P", "A", "T", "C", "H">>

\* _apply_ips_patch
apply_ips_patch(fs, original_file, patch_file, output_file) ==
  LET try ==
        IF original_file \notin DOMAIN fs \/ patch_file \notin DOMAIN fs THEN Raised(fs)
        ELSE IF Len(fs[patch_file]) > 5 /\ SubSeq(fs[patch_file], 1, 5) = PatchHeader
        THEN IF Writable(output_file)
             THEN Returned(Write(fs, output_file, fs[original_file]))
             ELSE Raised(fs)
        ELSE copy2(fs, original_file, output_file)
  IN  IF try.raised THEN copy2(fs, original_file, output_file) ELSE try

\* _apply_bps_patch that reports success without writing the output
apply_bps_patch_NoCopy(fs, original_file, patch_file, output_file) == Returned(fs)

\* _apply_bps_patch
apply_bps_patch(fs, original_file, patch_file, output_file) ==
  LET try == copy2(fs, original_file, output_file)
  IN  IF try.raised THEN copy2(fs, original_file, output_file) ELSE try

\* The output file name that _batch_patch_file gives to file_path
OutputFile(output_dir, file_path) ==
  join(output_dir, splitext(basename(file_path))[1]
                   \o <<"_", "p", "a", "t", "c", "h", "e", "d">>
                   \o splitext(file_path)[2])

\* The line appended to batch_patch_log.txt
PatchedLine(file_path, output_file, patch_file) ==
  [time |-> now, text |-> "Patched", file_path |-> file_path,
   output_file |-> output_file, patch_file |-> patch_file]

\* The line appended to batch_patch_errors.txt
ErrorLine(file_path) ==
  [time |-> now, text |-> "Error patching", file_path |-> file_path,
   output_file |-> <<>>, patch_file |-> <<>>]

\* _batch_patch_file, the body of its try block: the file system after it and
\* whether it raised
batch_patch_try(fs, file_path) ==
  LET patch_file == batch_patch_file_var
      output_dir == batch_output_var
  IN  IF patch_file = <<>> \/ ~exists(fs, patch_file) THEN Returned(fs)
      ELSE
        LET output_file == OutputFile(output_dir, file_path)
            patch_ext == lower(splitext(patch_file)[2])
            applied ==
              IF patch_ext = <<".", "i", "p", "s">>
              THEN apply_ips_patch(fs, file_path, patch_file, output_file)
              ELSE IF patch_ext = <<".", "b", "p", "s">>
              THEN apply_bps_patch(fs, file_path, patch_file, output_file)
              ELSE copy2(fs, file_path, output_file)
        IN  IF applied.raised THEN applied
            ELSE append(applied.files, join(output_dir, LogName),
                        PatchedLine(file_path, output_file, patch_file))

\* _batch_patch_file: the try block and the handler that writes the error
\* log; raised when an exception leaves the method
batch_patch_file(fs, file_path) ==
  LET body == batch_patch_try(fs, file_path)
  IN  IF body.raised
      THEN append(body.files, join(batch_output_var, ErrorLogName), ErrorLine(file_path))
      ELSE body

\* _batch_extract_file and _batch_analyze_file return at once without the tool
batch_extract_file(fs, file_path) == Returned(fs)
batch_analyze_file(fs, file_path) == Returned(fs)

IdleWorker == [pc |-> "idle", i |-> 0, total_files |-> 0]

\* The lines of every log file on disk
LogFiles(fs) == {p \in DOMAIN fs : basename(p) \in {LogName, ErrorLogName}}

RECURSIVE CountLines(_, _)
CountLines(fs, S) ==
  IF S = {} THEN 0
  ELSE LET p == CHOOSE q \in S : TRUE IN Len(fs[p]) + CountLines(fs, S \ {p})

\* add_batch_files: the file dialog returned filenames
add_batch_files(filenames) ==
  /\ Len(batch_files) + Len(filenames) <= MaxBatch
  /\ batch_files' = batch_files \o filenames
  /\ UNCHANGED <<files, dialog, singlevars, batch_output_var, batch_patch_file_var,
                 batch_operation, worker, operation_progress, regvars, txnvars, sharevars>>
  /\ ui_caller' = MainThread

\* clear_batch_files
clear_batch_files ==
  /\ batch_files' = <<>>
  /\ UNCHANGED <<files, dialog, singlevars, batch_output_var, batch_patch_file_var,
                 batch_operation, worker, operation_progress, regvars, txnvars, sharevars>>
  /\ ui_caller' = MainThread

\* browse_batch_output, or typing into the entry bound to batch_output_var
browse_batch_output(directory) ==
  /\ batch_output_var' = directory
  /\ UNCHANGED <<files, dialog, singlevars, batch_files, batch_patch_file_var,
                 batch_operation, worker, operation_progress, regvars, txnvars, sharevars>>
  /\ ui_caller' = MainThread

\* browse_batch_patch_file, or typing into the entry of batch_patch_file_var
browse_batch_patch_file(filename) ==
  /\ batch_patch_file_var' = filename
  /\ UNCHANGED <<files, dialog, singlevars, batch_files, batch_output_var,
                 batch_operation, worker, operation_progress, regvars, txnvars, sharevars>>
  /\ ui_caller' = MainThread

\* The operation combobox
select_batch_operation(operation) ==
  /\ batch_operation' = operation
  /\ UNCHANGED <<files, dialog, singlevars, batch_files, batch_output_var,
                 batch_patch_file_var, worker, operation_progress, regvars, txnvars, sharevars>>
  /\ ui_caller' = MainThread

\* start_batch_processing: the Start button
start_batch_processing ==
  /\ worker.pc \in {"idle", "done", "failed"}
  /\ IF batch_files = <<>>
     THEN /\ dialog' = ShowError(NoBatchFiles)
          /\ UNCHANGED worker
     ELSE IF batch_output_var = <<>>
     THEN /\ dialog' = ShowError(NoOutputDirectory)
          /\ UNCHANGED worker
     ELSE /\ worker' = [pc |-> "started", i |-> 0, total_files |-> 0]
          /\ UNCHANGED dialog
  /\ UNCHANGED <<files, singlevars, batch_files, batch_output_var,
                 batch_patch_file_var, batch_operation, operation_progress,
                 regvars, txnvars, sharevars>>
  /\ ui_caller' = MainThread

\* _batch_processing_thread: total_files = len(self.batch_files)
batch_thread_begin ==
  /\ worker.pc = "started"
  /\ worker' = [pc |-> "loop", i |-> 0, total_files |-> Len(batch_files)]
  /\ operation_progress' = Percent(0, 1)
  /\ UNCHANGED <<files, dialog, singlevars, batch_files, batch_output_var,
                 batch_patch_file_var, batch_operation, regvars, txnvars, sharevars>>
  /\ ui_caller' = WorkerThread

\* _batch_processing_thread: one iteration of the loop over self.batch_files
batch_thread_file ==
  /\ worker.pc = "loop"
  /\ worker.i < Len(batch_files)
  /\ CountLines(files, LogFiles(files)) < MaxLogLines
  /\ LET file_path == batch_files[worker.i + 1]
         done == CASE batch_operation = "extract" -> batch_extract_file(files, file_path)
                   [] batch_operation = "patch" -> batch_patch_file(files, file_path)
                   [] batch_operation = "analyze" -> batch_analyze_file(files, file_path)
                   [] OTHER -> Returned(files)
     IN  /\ files' = done.files
         /\ IF done.raised \/ worker.total_files = 0
            THEN /\ worker' = [worker EXCEPT !.pc = "failed"]
                 /\ operation_progress' = Percent(0, 1)
                 /\ dialog' = ShowError(BatchFailed)
            ELSE /\ worker' = [worker EXCEPT !.i = @ + 1]
                 /\ operation_progress' = Percent((worker.i + 1) * 100, worker.total_files)
                 /\ UNCHANGED dialog
  /\ UNCHANGED <<singlevars, batch_files, batch_output_var, batch_patch_file_var,
                 batch_operation, regvars, txnvars, sharevars>>
  /\ ui_caller' = WorkerThread

\* _batch_processing_thread: the loop is exhausted
batch_thread_end ==
  /\ worker.pc = "loop"
  /\ worker.i >= Len(batch_files)
  /\ worker' = [worker EXCEPT !.pc = "done"]
  /\ operation_progress' = Percent(100, 1)
  /\ dialog' = ShowInfo(BatchCompleted)
  /\ UNCHANGED <<files, singlevars, batch_files, batch_output_var,
                 batch_patch_file_var, batch_operation, regvars, txnvars, sharevars>>
  /\ ui_caller' = WorkerThread

----------------------------------------------------------------------------
(* The mod-share tab (mod_share_gui.py).  The handlers call the registry on *)
(* the tables and report with a message box; share_files maps each file the *)
(* tab can read to the name of its size class in Disk.                      *)

\* self.mods_dir, created by __init__, and the directory download_mod makes
mods_dir == <<"s", "h", "a", "r", "e", "d", "_", "m", "o", "d", "s">>
downloads_dir == <<"d", "o", "w", "n", "l", "o", "a", "d", "s">>

\* Files the user can pick in the upload form: two with the same name in
\* different directories, one above the size limit; A_none is not on disk
A_pack == <<"a", "/", "p">>
B_pack == <<"b", "/", "p">>
A_huge == <<"a", "/", "x">>
A_none == <<"a", "/", "n">>

InitialShareFiles == (A_pack :> "small") @@ (B_pack :> "exact") @@ (A_huge :> "over")

LoginRequired == "You must be logged in to upload mods"
UploadFieldsRequired == "Title, file, and game compatibility are required"
SelectedFileMissing == "Selected file does not exist"
UploadFailed == "Upload failed"
ModUploaded == "Mod uploaded successfully!"
DownloadFailed == "Download failed"
ModDownloaded == "Mod downloaded successfully!"
CredentialsRequired == "Please enter both username and password"
InvalidLogin == "Invalid username or password"
LoginFailed == "Login failed"
WelcomeBack == "Welcome back"
LoggedOut == "Logged out successfully"

\* The files of a directory
FilesIn(fs, dir) == {p \in DOMAIN fs : dirname(p) = dir}

\* refresh_mods_list, as the last call of a handler: the rows of the page
\* current_page of the public mods that match the search box, by
\* upload_date DESC (the category and sort boxes keep their initial values),
\* then update_pagination: Next is enabled when get_mods(limit, offset of
\* the following page), called with no search text and no category, returns
\* rows, which it does when the public mods number more than the offset
refresh_mods_list ==
  /\ \E f \in (SortedOrders(ModsWhere(None, Strip(search_var)),
                             <<[col |-> "upload_date", dir |-> "DESC"]>>))' :
       mods_tree' = Page(f, mods_per_page, current_page' * mods_per_page)
  /\ next_button' = (Cardinality(ModsWhere(None, <<>>)') > (current_page' + 1) * mods_per_page)

\* login: authenticate_user raises for every account it finds (the
\* parameters of its UPDATE), so the handler never sets current_user
login(username, password) ==
  LET u == Strip(username)
      m == AuthMatches(u, password)
  IN  /\ IF u = <<>> \/ password = <<>>
         THEN /\ share_dialog' = ShowError(CredentialsRequired)
              /\ UNCHANGED <<users, current_user>>
         ELSE IF m = {}
         THEN /\ share_dialog' = ShowError(InvalidLogin)
              /\ UNCHANGED <<users, current_user>>
         ELSE \E uid \in m :
                IF ParamsSupported(LastLoginParams(uid))
                THEN /\ users' = [users EXCEPT ![uid].last_login = Some(now)]
                     /\ current_user' = Some(uid)
                     /\ share_dialog' = ShowInfo(WelcomeBack)
                ELSE /\ share_dialog' = ShowError(LoginFailed)
                     /\ UNCHANGED <<users, current_user>>
      /\ UNCHANGED <<mods, comments, downloads, mod_categories, categories, now, last,
                     txnvars, patchvars, share_files, current_page, search_var>>
      /\ IF current_user' # current_user
         THEN refresh_mods_list
         ELSE UNCHANGED <<next_button, mods_tree>>

\* The state login leaves when authenticate_user returns the account: the
\* tab holds a session of the account.  The upload form is reached only in
\* such a session.
open_session(uid) ==
  /\ uid \in UserIds
  /\ users[uid].is_active = 1
  /\ current_user' = Some(uid)
  /\ share_dialog' = ShowInfo(WelcomeBack)
  /\ UNCHANGED <<regvars, txnvars, patchvars, share_files, current_page, search_var>>
  /\ refresh_mods_list

logout ==
  /\ current_user' = None
  /\ share_dialog' = ShowInfo(LoggedOut)
  /\ UNCHANGED <<regvars, txnvars, patchvars, share_files, browsevars>>

\* dest_path = os.path.join(self.mods_dir, f"{self.current_user['id']}_{filename}")
StoredPath(uid, file_path) ==
  join(mods_dir, <<ToString(uid), "_">> \o basename(file_path))

\* ModShareGUI.upload_mod: the form is checked, the file is copied into
\* shared_mods, then the registry's upload_mod is called with the copy, which
\* exists and has the size of the file it was copied from
gui_upload_mod(title, file_path, game_compatibility, is_public) ==
  LET t == Strip(title)
      f == Strip(file_path)
      g == Strip(game_compatibility)
  IN  /\ IF current_user = None
         THEN /\ share_dialog' = ShowError(LoginRequired)
              /\ UNCHANGED <<mods, share_files>>
         ELSE IF t = <<>> \/ f = <<>> \/ g = <<>>
         THEN /\ share_dialog' = ShowError(UploadFieldsRequired)
              /\ UNCHANGED <<mods, share_files>>
         ELSE IF f \notin DOMAIN share_files
         THEN /\ share_dialog' = ShowError(SelectedFileMissing)
              /\ UNCHANGED <<mods, share_files>>
         ELSE LET uid == current_user[1]
                  dest_path == StoredPath(uid, f)
                  size_class == share_files[f]
                  v == UploadValidation(t, size_class, g)
              IN  /\ Len(mods) < MaxMods
                  /\ IF f = dest_path
                     THEN /\ share_dialog' = ShowError(UploadFailed)
                          /\ UNCHANGED <<mods, share_files>>
                     ELSE /\ share_files' = Write(share_files, dest_path, size_class)
                          /\ IF v # OK
                             THEN /\ share_dialog' = ShowError(UploadFailed)
                                  /\ UNCHANGED mods
                             ELSE /\ mods' = Append(mods,
                                        [NewMod(t, <<>>, uid, size_class, g, <<>>, is_public)
                                           EXCEPT !.file_path = dest_path])
                                  /\ share_dialog' = ShowInfo(ModUploaded)
      /\ UNCHANGED <<users, comments, downloads, mod_categories, categories, now, last,
                     txnvars, patchvars, current_user, current_page, search_var>>
      /\ IF share_dialog' = ShowInfo(ModUploaded)
         THEN refresh_mods_list
         ELSE UNCHANGED <<next_button, mods_tree>>

\* ModShareGUI.download_mod for the mod of the details dialog: the download
\* is recorded, then the stored file is copied into downloads
download_mod(mod_id) ==
  LET source_path == mods[mod_id].file_path
      dest_path == join(downloads_dir, basename(source_path))
  IN  /\ mod_id \in ModIds
      /\ mods[mod_id].author_id \in UserIds
      /\ Len(downloads) < MaxDownloads
      /\ downloads' = InsertDownload(downloads, mod_id, current_user)
      /\ mods' = IncrementDownloads(mods, mod_id)
      /\ IF source_path \in DOMAIN share_files
         THEN /\ share_files' = Write(share_files, dest_path, share_files[source_path])
              /\ share_dialog' = ShowInfo(ModDownloaded)
         ELSE /\ share_dialog' = ShowError(DownloadFailed)
              /\ UNCHANGED share_files
      /\ UNCHANGED <<users, comments, mod_categories, categories, now, last, txnvars,
                     patchvars, current_user, current_page, search_var>>
      /\ IF share_dialog' = ShowInfo(ModDownloaded)
         THEN refresh_mods_list
         ELSE UNCHANGED <<next_button, mods_tree>>

\* A file of shared_mods is deleted outside the application
remove_stored_file(p) ==
  /\ p \in FilesIn(share_files, mods_dir)
  /\ share_files' = [q \in DOMAIN share_files \ {p} |-> share_files[q]]
  /\ UNCHANGED <<regvars, txnvars, patchvars, current_user, share_dialog, browsevars>>

\* search_mods, the Search button, with the text typed in the search box
search_mods(text) ==
  /\ search_var' = text
  /\ current_page' = 0
  /\ UNCHANGED <<regvars, txnvars, patchvars, current_user, share_files, share_dialog>>
  /\ refresh_mods_list

\* prev_page, the Previous button
prev_page ==
  /\ current_page > 0
  /\ current_page' = current_page - 1
  /\ UNCHANGED <<regvars, txnvars, patchvars, current_user, share_files, share_dialog,
                 search_var>>
  /\ refresh_mods_list

\* next_page, the Next button, which can be clicked while it is enabled
next_page ==
  /\ next_button
  /\ current_page' = current_page + 1
  /\ UNCHANGED <<regvars, txnvars, patchvars, current_user, share_files, share_dialog,
                 search_var>>
  /\ refresh_mods_list

----------------------------------------------------------------------------
(* Registry initialization *)

default_categories ==
  <<[name |-> "Game Mods", description |-> "General game modifications"],
    [name |-> "Character Mods", description |-> "Character replacements and additions"],
    [name |-> "Stage Mods", description |-> "Custom stages and stage modifications"],
    [name |-> "Music Mods", description |-> "Custom music and sound modifications"],
    [name |-> "Texture Mods", description |-> "Texture and visual modifications"],
    [name |-> "Utility Mods", description |-> "Tools and utilities"],
    [name |-> "Experimental", description |-> "Experimental and beta mods"]>>

\* INSERT INTO categories (name, description) without a conflict clause
InsertCategory_Always(rows, c) ==
  Append(rows, [id |-> Len(rows) + 1, name |-> c.name, description |-> c.description,
                parent_id |-> None])

\* INSERT OR IGNORE INTO categories (name, description): name is UNIQUE
InsertCategory(rows, c) ==
  IF \E i \in 1..Len(rows) : rows[i].name = c.name THEN rows
  ELSE Append(rows, [id |-> Len(rows) + 1, name |-> c.name,
                     description |-> c.description, parent_id |-> None])

\* _init_default_categories: the loop over default_categories, from entry k
RECURSIVE InsertDefaults(_, _)
InsertDefaults(rows, k) ==
  IF k > Len(default_categories) THEN rows
  ELSE InsertDefaults(InsertCategory(rows, default_categories[k]), k + 1)

init_default_categories(rows) == InsertDefaults(rows, 1)

\* init_database on the existing store: CREATE TABLE IF NOT EXISTS leaves
\* the existing tables alone, then the default categories are inserted
init_database ==
  /\ categories' = init_default_categories(categories)
  /\ last' = [op |-> "init_database", args |-> <<>>, outcome |-> OK, ret |-> None]
  /\ UNCHANGED <<users, mods, comments, downloads, mod_categories, now, txnvars, patchvars, sharevars>>

----------------------------------------------------------------------------
(* Specification of the account operations *)

Init ==
  /\ users = <<>>
  /\ mods = <<>>
  /\ comments = <<>>
  /\ downloads = <<>>
  /\ mod_categories = {}
  /\ categories = init_default_categories(<<>>)
  /\ now = 1
  /\ last = [op |-> "init", args |-> <<>>, outcome |-> OK, ret |-> None]
  /\ conn = [p \in Callers |-> IdleConn]
  /\ dblock = 0
  /\ returned = [m \in 1..MaxMods |-> 0]
  /\ files = InitialFiles
  /\ current_file = None
  /\ patch_file_var = <<>>
  /\ backup_before_patch = TRUE
  /\ patch_history = <<>>
  /\ history_selection = None
  /\ patcher = "idle"
  /\ dialog = NoDialog
  /\ batch_files = <<>>
  /\ batch_output_var = <<>>
  /\ batch_patch_file_var = <<>>
  /\ batch_operation = "extract"
  /\ worker = IdleWorker
  /\ operation_progress = Percent(0, 1)
  /\ ui_caller = MainThread
  /\ current_user = None
  /\ share_files = InitialShareFiles
  /\ share_dialog = NoDialog
  /\ current_page = 0
  /\ next_button = FALSE
  /\ search_var = <<>>
  /\ mods_tree = <<>>

CreateUserStep == \E u \in Usernames, e \in Emails, p \in Passwords : create_user(u, e, p)

AuthenticateStep ==
  \E i \in Usernames \cup Emails, p \in Passwords : authenticate_user(i, p)

NextAccounts == CreateUserStep \/ AuthenticateStep \/ Tick

SpecAccounts == Init /\ [][NextAccounts]_vars

----------------------------------------------------------------------------
(* Specification of uploads: every validation outcome of upload_mod *)

RegisterAlice == create_user(S_alice, E_alice, P_secret1)

UploadTitles == {T_hat, S_blank}
UploadPaths == {"small", "exact", "over", "big", "missing"}
UploadCompat == {G_game, S_empty}

UploadStep ==
  \E t \in UploadTitles, f \in UploadPaths, g \in UploadCompat, pub \in BOOLEAN :
    upload_mod(t, <<>>, 1, f, g, <<>>, pub)

NextUpload == RegisterAlice \/ UploadStep

SpecUpload == Init /\ [][NextUpload]_vars

----------------------------------------------------------------------------
(* Specification of the listing query over public and private mods *)

ListedTitles == {T_hat, T_map}

\* uploads name account 1 as the author, also before it is registered
UploadListed ==
  \E t \in ListedTitles, pub \in BOOLEAN :
    upload_mod(t, <<>>, 1, "small", G_game, <<>>, pub)

Limits == {1, 20}
Offsets == {0, 1}
CategoryInputs == {None, Some(1)}
SearchInputs == {<<>>, <<"h">>}
SortByInputs == {"download_count", "title", "id, m.title", "bogus"}
SortOrderInputs == {"ASC", "DESC", "sideways"}

GetModsStep ==
  \E l \in Limits, o \in Offsets, c \in CategoryInputs, q \in SearchInputs,
     sb \in SortByInputs, so \in SortOrderInputs :
    get_mods(l, o, c, q, sb, so)

NextListing == RegisterAlice \/ UploadListed \/ GetModsStep

SpecListing == Init /\ [][NextListing]_vars

----------------------------------------------------------------------------
(* Specification of the text search of the mod browser *)

SearchedDescriptions == {<<>>, <<"H", "_">>}
SearchedTags == {<<>>, <<"h">>}

UploadSearched ==
  \E t \in ListedTitles, d \in SearchedDescriptions, g \in SearchedTags,
     pub \in BOOLEAN :
    upload_mod(t, d, 1, "small", G_game, g, pub)

SearchQueries == {<<"h">>, <<"H">>, <<"a", "p">>, <<"_">>, <<"%">>, <<"a", "_">>}

\* search_mods: the first page of the default listing for the query
SearchStep == \E q \in SearchQueries : get_mods(20, 0, None, q, "upload_date", "DESC")

NextSearch == RegisterAlice \/ UploadSearched \/ SearchStep

SpecSearch == Init /\ [][NextSearch]_vars

----------------------------------------------------------------------------
(* Specification of comments and ratings on the mods of one account *)

UploadHat == upload_mod(T_hat, <<>>, 1, "small", G_game, <<>>, TRUE)
UploadMap == upload_mod(T_map, <<>>, 1, "small", G_game, <<>>, FALSE)

RatingInputs == {None, Some(0), Some(4), Some(5)}

CommentStep == \E m \in 1..MaxMods, r \in RatingInputs : add_comment(m, 1, C_nice, r)

NextRatings == RegisterAlice \/ UploadHat \/ UploadMap \/ CommentStep

SpecRatings == Init /\ [][NextRatings]_vars

----------------------------------------------------------------------------
(* Specifications of concurrent callers on uploaded mods.  Downloads and   *)
(* comments name mods that exist when the call is made.                    *)

\* The account and the mods are created while no transaction is open
Setup == dblock = 0 /\ (RegisterAlice \/ UploadHat)

NextDownloads ==
  \/ Setup
  \/ \E p \in Callers :
       \/ \E m \in ModIds : RD_Insert(p, m)
       \/ RD_Update(p)
       \/ Commit(p)
       \/ Fail(p)

SpecDownloads == Init /\ [][NextDownloads]_vars

TxnRatings == {None, Some(5)}

NextComments ==
  \/ Setup
  \/ \E p \in Callers :
       \/ \E m \in ModIds, r \in TxnRatings : AC_Verify(p, m, 1, C_nice, r)
       \/ AC_Insert(p)
       \/ AC_Update(p)
       \/ Commit(p)
       \/ Fail(p)
       \/ Busy(p)

SpecComments == Init /\ [][NextComments]_vars

----------------------------------------------------------------------------
(* Specification of the detail view read while comments are added *)

\* The caller that reads the details; the other callers add comments
Reader == CHOOSE p \in Callers : \A q \in Callers : p <= q

NextDetails ==
  \/ Setup
  \/ \E m \in 1..MaxMods : GD_SelectMod(Reader, m)
  \/ GD_SelectComments(Reader)
  \/ \E p \in Callers \ {Reader} :
       \/ \E m \in ModIds : AC_Verify(p, m, 1, C_nice, Some(5))
       \/ AC_Insert(p)
       \/ AC_Update(p)
       \/ Commit(p)

SpecDetails == Init /\ [][NextDetails]_vars

----------------------------------------------------------------------------
(* Specification of repeated initialization: the registry is opened again *)
(* (a new ModShareDatabase on the same file) between other operations      *)

NextInit == RegisterAlice \/ UploadHat \/ UploadMap \/ CommentStep \/ init_database

SpecInit == Init /\ [][NextInit]_vars

----------------------------------------------------------------------------
(* Specification of the download counter: downloads are recorded between  *)
(* the other operations of the registry                                    *)

Downloaders == {None, Some(1)}

DownloadStep == \E m \in 1..MaxMods, u \in Downloaders : record_download(m, u)

RateStep == add_comment(1, 1, C_nice, Some(5))

LoginAlice == authenticate_user(S_alice, P_secret1)

ListStep == get_mods(20, 0, None, <<>>, "download_count", "DESC")

DetailsStep == \E m \in 1..MaxMods : get_mod_details(m)

NextCounter ==
  \/ RegisterAlice
  \/ UploadHat
  \/ DownloadStep
  \/ RateStep
  \/ LoginAlice
  \/ ListStep
  \/ DetailsStep

SpecCounter == Init /\ [][NextCounter]_vars

----------------------------------------------------------------------------
(* Specification of the mod-share tab: accounts register, sessions open and *)
(* close, mods are uploaded through the form and downloaded                  *)

RegisterBob == create_user(S_bob, E_bob, P_hunter)

LoginStep == \E u \in {S_alice, S_empty} : login(u, P_secret1)

OpenSessionStep == \E u \in 1..MaxUsers : open_session(u)

UploadFiles == {A_pack, B_pack, A_huge, A_none}

UploadFormStep ==
  \E t \in {T_hat, S_empty}, f \in UploadFiles : gui_upload_mod(t, f, G_game, TRUE)

NextShare ==
  \/ RegisterAlice
  \/ RegisterBob
  \/ LoginStep
  \/ OpenSessionStep
  \/ logout
  \/ UploadFormStep

SpecShare == Init /\ [][NextShare]_vars

----------------------------------------------------------------------------
(* Specification of downloads in the mod-share tab: mods uploaded in a    *)
(* session are downloaded, with and without a session, and stored files   *)
(* may be deleted outside the application                                  *)

UploadPackStep == gui_upload_mod(T_hat, A_pack, G_game, TRUE)

DownloadClickStep == \E m \in ModIds : download_mod(m)

RemoveStoredFileStep == \E p \in DOMAIN share_files : remove_stored_file(p)

NextShareDownload ==
  \/ RegisterAlice
  \/ OpenSessionStep
  \/ logout
  \/ UploadPackStep
  \/ DownloadClickStep
  \/ RemoveStoredFileStep

SpecShareDownload == Init /\ [][NextShareDownload]_vars

----------------------------------------------------------------------------
(* Specification of the category filter of the mod browser *)

FilterCategories == {None, Some(1), Some(7)}

FilteredListStep ==
  \E c \in FilterCategories, q \in SearchInputs :
    get_mods(20, 0, c, q, "upload_date", "DESC")

NextCategoryFilter ==
  \/ RegisterAlice
  \/ UploadListed
  \/ RateStep
  \/ init_database
  \/ FilteredListStep

SpecCategoryFilter == Init /\ [][NextCategoryFilter]_vars

----------------------------------------------------------------------------
(* Specification of add_comment with valid and invalid arguments *)

CommentTexts == {C_nice, S_empty, S_blank}
CommentRatings == {None, Some(0), Some(5), Some(6)}

CommentAnyStep ==
  \E m \in 1..MaxMods, u \in 1..MaxUsers, c \in CommentTexts, r \in CommentRatings :
    add_comment(m, u, c, r)

NextCommentErrors == RegisterAlice \/ UploadHat \/ CommentAnyStep

SpecCommentErrors == Init /\ [][NextCommentErrors]_vars

----------------------------------------------------------------------------
(* Specification of the mod browser: the registry gains an account and    *)
(* listings while the list of the tab is searched and paged               *)

\* Texts of the search box: empty, blank, one that matches "Hat" only, one
\* that matches both titles
BrowseQueries == {<<>>, <<" ">>, <<"h">>, <<"a">>}

SearchClickStep == \E q \in BrowseQueries : search_mods(q)

NextBrowse ==
  \/ RegisterAlice
  \/ UploadListed
  \/ prev_page
  \/ next_page
  \/ SearchClickStep

SpecBrowse == Init /\ [][NextBrowse]_vars

----------------------------------------------------------------------------
(* Specification of the patch tab: one file is selected and patched *)

SelectableFiles == {F_a, F_gone}
PatchFileInputs == {<<>>, PF_ips, PF_BPS, PF_patch, PF_xyz, PF_missing}

BrowseFileStep == \E f \in SelectableFiles : browse_file(f)

BrowsePatchFileStep == \E f \in PatchFileInputs : browse_patch_file(f)

SelectHistoryStep == \E i \in 1..MaxHistory : select_history(i)

RevertStep == \E confirm \in BOOLEAN : revert_patch(confirm)

NextPatch ==
  \/ BrowseFileStep
  \/ BrowsePatchFileStep
  \/ toggle_backup
  \/ apply_patch
  \/ apply_patch_thread
  \/ SelectHistoryStep
  \/ RevertStep
  \/ Tick

SpecPatch == Init /\ [][NextPatch]_vars

----------------------------------------------------------------------------
(* Specification of patching with backups: 'backup before patch' stays on, *)
(* the selected file is on disk, and the clock advances at any time        *)

BackedUpPatchInputs == {PF_ips, PF_xyz}

SelectOriginalStep == browse_file(F_a)

SelectPatchStep == \E f \in BackedUpPatchInputs : browse_patch_file(f)

NextBackup ==
  \/ SelectOriginalStep
  \/ SelectPatchStep
  \/ apply_patch
  \/ apply_patch_thread
  \/ Tick

SpecBackup == Init /\ [][NextBackup]_vars

----------------------------------------------------------------------------
(* Specification of the batch tab: the form is filled in while no batch is *)
(* running                                                                 *)

BatchSelections == {<<F_a>>, <<F_gone>>}
OutputInputs == {<<>>, D_out, D_ro, D_nodir}
BatchPatchInputs == {PF_ips, PF_xyz, PF_missing}
Operations == {"extract", "patch"}

FormAtRest == worker.pc \in {"idle", "done", "failed"}

AddBatchFilesStep == FormAtRest /\ \E fs \in BatchSelections : add_batch_files(fs)

ClearBatchFilesStep == FormAtRest /\ clear_batch_files

BrowseBatchOutputStep == FormAtRest /\ \E d \in OutputInputs : browse_batch_output(d)

BrowseBatchPatchFileStep ==
  FormAtRest /\ \E f \in BatchPatchInputs : browse_batch_patch_file(f)

SelectOperationStep == FormAtRest /\ \E o \in Operations : select_batch_operation(o)

NextBatch ==
  \/ AddBatchFilesStep
  \/ ClearBatchFilesStep
  \/ BrowseBatchOutputStep
  \/ BrowseBatchPatchFileStep
  \/ SelectOperationStep
  \/ start_batch_processing
  \/ batch_thread_begin
  \/ batch_thread_file
  \/ batch_thread_end

SpecBatch == Init /\ [][NextBatch]_vars

----------------------------------------------------------------------------
(* Specification of the batch tab while a batch runs: the buttons of the   *)
(* form stay enabled, so files are added and the list is cleared at any    *)
(* time                                                                    *)

LiveSelections == {<<F_a>>, <<F_b>>}

AddFilesAnyTime == \E fs \in LiveSelections : add_batch_files(fs)

ChooseOutputStep == browse_batch_output(D_out)

NextBatchLive ==
  \/ AddFilesAnyTime
  \/ clear_batch_files
  \/ ChooseOutputStep
  \/ start_batch_processing
  \/ batch_thread_begin
  \/ batch_thread_file
  \/ batch_thread_end

SpecBatchLive == Init /\ [][NextBatchLive]_vars

----------------------------------------------------------------------------
(* Specification of batch patching with the supported patch formats *)

SupportedPatchInputs == {PF_ips, PF_BPS, PF_patch}
PatchOutputInputs == {D_out, D_nodir}

BrowseSupportedPatchStep ==
  FormAtRest /\ \E f \in SupportedPatchInputs : browse_batch_patch_file(f)

BrowsePatchOutputStep == FormAtRest /\ \E d \in PatchOutputInputs : browse_batch_output(d)

SelectPatchOperationStep == FormAtRest /\ select_batch_operation("patch")

NextBatchPatch ==
  \/ AddBatchFilesStep
  \/ ClearBatchFilesStep
  \/ BrowsePatchOutputStep
  \/ BrowseSupportedPatchStep
  \/ SelectPatchOperationStep
  \/ start_batch_processing
  \/ batch_thread_begin
  \/ batch_thread_file
  \/ batch_thread_end

SpecBatchPatch == Init /\ [][NextBatchPatch]_vars

----------------------------------------------------------------------------
(* Claims about the accounts *)

\* The accounts whose credentials are (ident, password)
AccountsOf(ident, password) ==
  {i \in UserIds : /\ ident \in {users[i].username, users[i].email}
                   /\ users[i].is_active = 1
                   /\ users[i].password_hash = hash_password(password)}

\* C1: authenticate called with the username or the email of an existing
\* active account and that account's password returns that account (id,
\* username, email) as a normal result, without raising an error.
C1_AuthenticateReturnsAccount ==
  last.op = "authenticate" =>
    \A i \in AccountsOf(last.args.username_or_email, last.args.password) :
      /\ last.outcome = OK
      /\ last.ret # None
      /\ last.ret.id = users[i].id
      /\ last.ret.username = users[i].username
      /\ last.ret.email = users[i].email

UsernameTaken(username) == \E i \in UserIds : users[i].username = Strip(username)
EmailTaken(email) == \E i \in UserIds : users[i].email = Strip(email)

\* C2: create_account (with inputs that pass validation) and a username equal
\* to an existing account's username fails with DuplicateUsername; with a
\* fresh username and an email equal to an existing account's email it fails
\* with DuplicateEmail; in both cases no account row is added and the existing
\* accounts are unchanged.
C2_DuplicateRejected ==
  [][(/\ last' # last
      /\ last'.op = "create_user"
      /\ CreateUserValidation(last'.args.username, last'.args.email,
                              last'.args.password) = OK)
     => /\ UsernameTaken(last'.args.username)
           => (last'.outcome = DuplicateUsername /\ users' = users)
        /\ (~UsernameTaken(last'.args.username) /\ EmailTaken(last'.args.email))
           => (last'.outcome = DuplicateEmail /\ users' = users)]_vars

----------------------------------------------------------------------------
(* Claims about ratings, listings and uploads *)

C3_Rated(m) == {i \in 1..Len(comments) : comments[i].mod_id = m /\ comments[i].rating # None}

RECURSIVE C3_Sum(_)
C3_Sum(S) ==
  IF S = {} THEN 0
  ELSE LET i == CHOOSE x \in S : TRUE IN comments[i].rating[1] + C3_Sum(S \ {i})

\* C3: after any sequence of add_comment calls, for every mod the stored
\* rating_count equals the number of that mod's comments that carry a rating
\* and the stored rating equals the arithmetic mean of those ratings (0.0, the
\* initial value, while there is none); comments without a rating change
\* neither value.
C3_RatingIsMean ==
  \A m \in ModIds :
    /\ mods[m].rating_count = Cardinality(C3_Rated(m))
    /\ mods[m].rating.num * Cardinality(C3_Rated(m)) = mods[m].rating.den * C3_Sum(C3_Rated(m))
    /\ C3_Rated(m) = {} => mods[m].rating.num = 0

C3_Witness ==
  /\ Len(mods) = 2
  /\ Cardinality(C3_Rated(1)) = 2
  /\ C3_Sum(C3_Rated(1)) = 9
  /\ \E i \in 1..Len(comments) : comments[i].mod_id = 1 /\ comments[i].rating = None
  /\ last.op = "add_comment" /\ last.outcome = OK /\ last.args.rating = None

\* C6: for every store state and every combination of limit, offset,
\* category_id, search_query, sort_by and sort_order, list_mods returns no
\* listing whose is_public flag is false.
C6_OnlyPublicListed ==
  (last.op = "get_mods" /\ last.outcome = OK) =>
    \A k \in 1..Len(last.ret) : mods[last.ret[k].id].is_public = 1

C6_Witness ==
  /\ last.op = "get_mods" /\ last.outcome = OK /\ Len(last.ret) = 1
  /\ last.args.limit = 20 /\ last.args.offset = 0
  /\ \E i \in ModIds : mods[i].is_public = 0 /\ mods[i].author_id \in UserIds

ValidationErrors ==
  {ErrUsernameEmpty, ErrEmailEmpty, ErrPasswordShort, ErrEmailFormat, ErrTitleEmpty,
   ErrFileMissing, ErrCompatEmpty, ErrCommentEmpty, ErrRatingRange}

\* C7: list_mods called with a sort_by value outside the allow-list of column
\* names is rejected with ValidationError (and runs no query built from it).
C7_SortByRejected ==
  (last.op = "get_mods" /\ last.args.sort_by \notin ModColumns) =>
    last.outcome \in ValidationErrors

----------------------------------------------------------------------------
(* Claims about concurrent callers *)

C4_Rows(m) == {i \in 1..Len(downloads) : downloads[i].mod_id = m}

\* C4: record_download writes the DownloadRecord and the counter increment
\* atomically: in every state another operation can observe, whatever the
\* interleaving of the callers, the download counter of an existing mod equals
\* the number of DownloadRecord rows that reference it, and both equal the
\* number of record_download calls on it that have completed.
C4_DownloadAtomic ==
  \A m \in ModIds :
    /\ mods[m].download_count = Cardinality(C4_Rows(m))
    /\ mods[m].download_count = returned[m]

C4_Witness ==
  \E m \in ModIds, p \in Callers :
    /\ returned[m] = 1
    /\ mods[m].download_count = 1
    /\ conn[p].pc = "rd_inserted"
    /\ conn[p].args.mod_id = m
    /\ Len(conn[p].image.downloads) = 2
    /\ conn[p].image.mods[m].download_count = 1

C5_Rated(m) == {i \in 1..Len(comments) : comments[i].mod_id = m /\ comments[i].rating # None}

RECURSIVE C5_Sum(_)
C5_Sum(S) ==
  IF S = {} THEN 0
  ELSE LET i == CHOOSE x \in S : TRUE IN comments[i].rating[1] + C5_Sum(S \ {i})

\* C5: the Comment insert and the recomputation of rating and rating_count
\* are one atomic unit: in every state another operation can observe (while
\* other callers are part-way, and after a call failed part-way) the
\* aggregates of every mod count exactly the rated comments stored for it.
C5_CommentAtomic ==
  \A m \in ModIds :
    /\ mods[m].rating_count = Cardinality(C5_Rated(m))
    /\ C5_Rated(m) # {} =>
         mods[m].rating.num * Cardinality(C5_Rated(m)) = mods[m].rating.den * C5_Sum(C5_Rated(m))
    /\ C5_Rated(m) = {} => mods[m].rating.num = 0

C5_Witness ==
  /\ \E m \in ModIds : mods[m].rating_count = 1
  /\ \E p \in Callers :
       /\ conn[p].pc = "ac_inserted"
       /\ conn[p].args.rating # None
       /\ Len(conn[p].image.comments) = Len(comments) + 1

----------------------------------------------------------------------------
(* Claims about the patch dispatch *)

\* The batch worker processes the file at its position with operation patch
BatchPatchStep ==
  /\ worker.pc = "loop"
  /\ worker.i < Len(batch_files)
  /\ worker' # worker
  /\ batch_operation = "patch"

\* patch_file is on disk and its extension is none of .ips, .bps, .patch
UnsupportedPatch(patch_file) ==
  /\ patch_file # <<>>
  /\ exists(files, patch_file)
  /\ lower(splitext(patch_file)[2]) \notin SupportedFormats

\* The step appends the entry of file_path to the error log of the batch
ErrorLogged(file_path) ==
  LET log_file == join(batch_output_var, ErrorLogName)
  IN  /\ log_file \in DOMAIN files'
      /\ files'[log_file] =
           (IF log_file \in DOMAIN files THEN files[log_file] ELSE <<>>)
           \o <<ErrorLine(file_path)>>

\* The step does not write the output file of file_path
NoOutputFile(file_path) ==
  LET output_file == OutputFile(batch_output_var, file_path)
  IN  output_file \in DOMAIN files' =>
        output_file \in DOMAIN files /\ files'[output_file] = files[output_file]

\* The worker goes on with the next file of the batch
BatchContinues == worker' = [worker EXCEPT !.i = @ + 1] /\ batch_files' = batch_files

C9_SingleMode ==
  (/\ patcher = "running"
   /\ patcher' = "idle"
   /\ current_file # None
   /\ exists(files, current_file[1])
   /\ UnsupportedPatch(patch_file_var))
  => /\ dialog' = ShowError(UnsupportedFormat)
     /\ patch_history' = patch_history

C9_BatchMode ==
  (BatchPatchStep /\ UnsupportedPatch(batch_patch_file_var))
  => /\ ErrorLogged(batch_files[worker.i + 1])
     /\ NoOutputFile(batch_files[worker.i + 1])
     /\ BatchContinues

\* C9: applying a patch file whose extension is none of .ips, .bps, .patch
\* fails with UnsupportedFormat in single-file mode and adds no PatchRecord;
\* in batch mode the file is skipped: an entry is written to the error log,
\* no output file is produced for it and the batch goes on with the other
\* files
C9_UnsupportedRejected == [][C9_SingleMode /\ C9_BatchMode]_vars

\* C10: in batch mode a failure while one file is processed (also while its
\* output or its log entry is written) never aborts the batch: the failure
\* is recorded in the error log and the worker goes on with the next file
C10_BatchNeverAborts ==
  [][(BatchPatchStep /\ batch_patch_try(files, batch_files[worker.i + 1]).raised)
     => ErrorLogged(batch_files[worker.i + 1]) /\ BatchContinues]_vars

----------------------------------------------------------------------------
(* Claims about the registry, continued *)

\* C11: running the registry initialization again on an initialized store,
\* whatever data it holds, leaves the Category rows as they were (the same
\* rows, the same count, no name twice) and changes no row of another table
C11_InitIdempotent ==
  [][(last' # last /\ last'.op = "init_database")
     => /\ categories' = categories
        /\ Len(categories') = Len(default_categories)
        /\ \A i, j \in 1..Len(categories') :
              categories'[i].name = categories'[j].name => i = j
        /\ UNCHANGED <<users, mods, comments, downloads, mod_categories>>]_vars

C11_Witness ==
  /\ last.op = "init_database"
  /\ users # <<>>
  /\ mods # <<>>
  /\ comments # <<>>

\* The messages of add_comment that report a missing row
NotFoundErrors == {ErrModNotFound, ErrUserNotFound}

BadAccountInput(a) ==
  \/ a.username = <<>> \/ Strip(a.username) = <<>>
  \/ a.email = <<>>
  \/ ~Contains(a.email, "@") \/ ~Contains(a.email, ".")
  \/ Len(a.password) < 6

\* The call succeeded: exactly one account was added and its id returned
OneAccountCreated ==
  /\ last'.outcome = OK
  /\ Len(users') = Len(users) + 1
  /\ SubSeq(users', 1, Len(users)) = users
  /\ last'.ret = Some(users'[Len(users')].id)

\* C13: create_account with an empty or whitespace-only username, an empty
\* email, an email lacking "@" or ".", or a password shorter than 6 fails
\* with ValidationError and creates no account; every call that satisfies
\* the preconditions with a username and an email not yet present succeeds
\* and returns the id of exactly one new account
C13_CreateAccount ==
  [][(last' # last /\ last'.op = "create_user")
     => LET a == last'.args
            fresh == \A i \in UserIds :
                       users[i].username # a.username /\ users[i].email # a.email
        IN  /\ BadAccountInput(a) => last'.outcome \in ValidationErrors /\ users' = users
            /\ (~BadAccountInput(a) /\ fresh) => OneAccountCreated]_vars

\* C13, amended: as C13, where "not yet present" compares the username and
\* the email after the surrounding whitespace is stripped, which is the form
\* create_user stores
C13_CreateAccountStripped ==
  [][(last' # last /\ last'.op = "create_user")
     => LET a == last'.args
            fresh == \A i \in UserIds :
                       /\ users[i].username # Strip(a.username)
                       /\ users[i].email # Strip(a.email)
        IN  /\ BadAccountInput(a) => last'.outcome \in ValidationErrors /\ users' = users
            /\ (~BadAccountInput(a) /\ fresh)
                 => /\ OneAccountCreated
                    /\ users'[Len(users')].username = Strip(a.username)
                    /\ users'[Len(users')].email = Strip(a.email)]_vars

\* A second account was created, from a username with surrounding blanks
C13_Witness ==
  /\ last.op = "create_user"
  /\ last.outcome = OK
  /\ last.args.username = S_alice_padded
  /\ Len(users) = 2

\* No account has the identifier ident together with the password
NoSuchCredentials(ident, password) ==
  \A i \in UserIds :
    \/ ident \notin {users[i].username, users[i].email}
    \/ users[i].password_hash # hash_password(password)

\* C14: authenticate with a wrong password, or with an identifier that
\* matches no account, returns the not-found result as a normal outcome and
\* leaves every stored row unchanged, the last_login of every account
\* included
C14_FailedAuthentication ==
  [][(/\ last' # last
      /\ last'.op = "authenticate"
      /\ NoSuchCredentials(last'.args.username_or_email, last'.args.password))
     => /\ last'.outcome = OK
        /\ last'.ret = None
        /\ UNCHANGED <<users, mods, comments, downloads, mod_categories, categories>>]_vars

\* An existing account was named with a wrong password
C14_Witness ==
  /\ last.op = "authenticate"
  /\ last.ret = None
  /\ last.outcome = OK
  /\ \E i \in UserIds :
       /\ users[i].username = last.args.username_or_email
       /\ users[i].password_hash # hash_password(last.args.password)

----------------------------------------------------------------------------
(* Claims about the patch history *)

\* The step is a confirmed revert of the selected PatchRecord
RevertObserved ==
  /\ history_selection # None
  /\ dialog' # dialog
  /\ dialog'.text \in {RevertFailed, BackupMissing, PatchReverted}

\* C15: revert of a PatchRecord whose backup file is on disk overwrites the
\* record's original file with the bytes of the backup and removes exactly
\* that record from the patch history, the other records keeping their order
C15_RevertRestores ==
  [][(/\ RevertObserved
      /\ exists(files, patch_history[history_selection[1]].backup_file))
     => LET r == patch_history[history_selection[1]]
        IN  /\ files' = Write(files, r.original_file, files[r.backup_file])
            /\ patch_history' = Pop(patch_history, history_selection[1])]_vars

\* C16: revert of a PatchRecord whose backup file is absent fails with
\* BackupMissing and leaves the patch history and every file unchanged
C16_RevertBackupMissing ==
  [][(/\ RevertObserved
      /\ ~exists(files, patch_history[history_selection[1]].backup_file))
     => /\ dialog' = ShowError(BackupMissing)
        /\ patch_history' = patch_history
        /\ files' = files]_vars

----------------------------------------------------------------------------
(* Claims about batch patching *)

\* The lines of the file p, none when the file does not exist
Lines(fs, p) == IF p \in DOMAIN fs THEN fs[p] ELSE <<>>

\* The batch patch file is on disk with extension .ips, .bps or .patch
SupportedPatch ==
  /\ batch_patch_file_var \in DOMAIN files
  /\ lower(splitext(batch_patch_file_var)[2]) \in SupportedFormats

\* The step gives file_path its output file and its line of the log
PatchedAndLogged(file_path) ==
  LET output_file == OutputFile(batch_output_var, file_path)
      log_file == join(batch_output_var, LogName)
      error_log == join(batch_output_var, ErrorLogName)
  IN  /\ file_path \in DOMAIN files
      /\ output_file \in DOMAIN files'
      /\ files'[output_file] = files[file_path]
      /\ file_path \in DOMAIN files'
      /\ files'[file_path] = files[file_path]
      /\ log_file \in DOMAIN files'
      /\ Len(files'[log_file]) = Len(Lines(files, log_file)) + 1
      /\ SubSeq(files'[log_file], 1, Len(Lines(files, log_file))) = Lines(files, log_file)
      /\ files'[log_file][Len(files'[log_file])].file_path = file_path
      /\ Lines(files', error_log) = Lines(files, error_log)

\* C17: in batch patch mode with an existing patch file of extension .ips,
\* .bps or .patch, every processed source file yields an output file with
\* the bytes of the source, the source is left unchanged, and exactly one
\* line for the file is appended to batch_patch_log.txt, none to
\* batch_patch_errors.txt
C17_BatchPatchCopies ==
  [][(BatchPatchStep /\ SupportedPatch) => PatchedAndLogged(batch_files[worker.i + 1])]_vars

\* C17, amended: as C17, for a source file that is on disk and is none of
\* the files the step writes, when the output file and batch_patch_log.txt
\* can be written in the output directory
C17_BatchPatchCopiesWritable ==
  [][(/\ BatchPatchStep
      /\ SupportedPatch
      /\ batch_files[worker.i + 1] \in DOMAIN files
      /\ batch_files[worker.i + 1] \notin
           {OutputFile(batch_output_var, batch_files[worker.i + 1]),
            join(batch_output_var, LogName), join(batch_output_var, ErrorLogName)}
      /\ Writable(OutputFile(batch_output_var, batch_files[worker.i + 1]))
      /\ Writable(join(batch_output_var, LogName)))
     => PatchedAndLogged(batch_files[worker.i + 1])]_vars

\* A batch of two files was patched with the .BPS patch file
C17_Witness ==
  /\ worker.pc = "done"
  /\ worker.i = 2
  /\ Len(Lines(files, join(D_out, LogName))) = 2
  /\ \A k \in 1..2 : files[join(D_out, LogName)][k].patch_file = PF_BPS

----------------------------------------------------------------------------
(* Claims about the listing query, continued *)

\* The ids of the rows of a result
ResultIds(ret) == {ret[k].id : k \in 1..Len(ret)}

\* The rows come ordered by the column in the direction, ties by id ascending
OrderedWithTieBreak(ret, col, dir) ==
  \A k \in 1..(Len(ret) - 1) :
    LET c == CmpCol(col, mods[ret[k].id], mods[ret[k + 1].id])
        d == IF dir = "DESC" THEN 0 - c ELSE c
    IN  d < 0 \/ (d = 0 /\ ret[k].id < ret[k + 1].id)

\* The step reads the page that follows the page read last, with the same
\* filters and sort, on the unchanged store
NextPageRead ==
  /\ last.op = "get_mods" /\ last.outcome = OK
  /\ last'.op = "get_mods" /\ last'.outcome = OK
  /\ mods' = mods /\ users' = users
  /\ last.args.limit >= 1
  /\ last'.args = [last.args EXCEPT !.offset = last.args.offset + last.args.limit]

RECURSIVE ContainsFolded(_, _)
ContainsFolded(text, query) ==
  IF Len(query) > Len(text) THEN FALSE
  ELSE \/ \A k \in 1..Len(query) : Fold(text[k]) = Fold(query[k])
       \/ (text # <<>> /\ ContainsFolded(Tail(text), query))

\* The public listings, of registered authors, whose title, description or
\* tags hold the query
PublicMatches(query) ==
  {i \in ModIds :
     /\ mods[i].author_id \in UserIds
     /\ mods[i].is_public = 1
     /\ \/ ContainsFolded(mods[i].title, query)
        \/ ContainsFolded(mods[i].description, query)
        \/ ContainsFolded(mods[i].tags, query)}

\* C19: list_mods with a non-empty search_query returns exactly the public
\* listings whose title, description or tags contain the query text as a
\* case-insensitive substring, also for queries that contain % or _
C19_SearchIsSubstring ==
  (/\ last.op = "get_mods"
   /\ last.outcome = OK
   /\ last.args.search_query # <<>>
   /\ last.args.offset = 0
   /\ last.args.limit >= Cardinality(ModIds))
  => ResultIds(last.ret) = PublicMatches(last.args.search_query)

----------------------------------------------------------------------------
(* Claims about the download counter *)

\* The step is a call of record_download: it adds one row to downloads
DownloadRecorded == Len(downloads') = Len(downloads) + 1

\* C20: a listing's download counter never decreases and changes only by
\* record_download, by exactly +1 for the mod of the call; upload of another
\* mod, add_comment, authenticate and the list and detail reads leave it alone
C20_CounterOnlyByDownload ==
  [][/\ \A i \in ModIds :
          /\ i \in DOMAIN mods'
          /\ mods'[i].download_count >= mods[i].download_count
          /\ mods'[i].download_count # mods[i].download_count
             => /\ DownloadRecorded
                /\ last'.op = "record_download"
                /\ last'.args.mod_id = i
     /\ DownloadRecorded
        => \A i \in ModIds :
             downloads'[Len(downloads')].mod_id = i
             => mods'[i].download_count = mods[i].download_count + 1]_vars

\* Both mods were downloaded once, one was rated, and a login or a read
\* came last
C20_Witness ==
  /\ Len(mods) >= 2
  /\ mods[1].download_count = 1
  /\ mods[2].download_count = 1
  /\ mods[1].rating_count >= 1
  /\ last.op \in {"get_mod_details", "get_mods", "authenticate"}

----------------------------------------------------------------------------
(* Claims about the category filter *)

CategoryIds == {categories[k].id : k \in 1..Len(categories)}

\* C21: no registry operation creates a category assignment, so list_mods
\* called with the id of a category returns the empty sequence, and the call
\* without category_id returns what the other filters select
C21_CategoryFilterEmpty ==
  /\ mod_categories = {}
  /\ (/\ last.op = "get_mods"
      /\ last.outcome = OK
      /\ last.args.category_id # None)
     => (last.args.category_id[1] \in CategoryIds => last.ret = <<>>)
  /\ (/\ last.op = "get_mods"
      /\ last.outcome = OK
      /\ last.args.category_id = None
      /\ last.args.offset = 0
      /\ last.args.limit >= Cardinality(ModIds))
     => ResultIds(last.ret) = PublicMatches(last.args.search_query)

\* Two public mods of a registered author are stored and the listing for
\* category 7 came back empty
C21_Witness ==
  /\ last.op = "get_mods"
  /\ last.args.category_id = Some(7)
  /\ last.args.search_query = <<>>
  /\ last.ret = <<>>
  /\ Cardinality(PublicMatches(<<>>)) >= 2

----------------------------------------------------------------------------
(* Claims about the mod-share tab *)

DownloadClicked == Len(downloads') = Len(downloads) + 1

----------------------------------------------------------------------------
(* Claims about the worker threads of the WiiWare modder *)

\* C23: every change of the user interface caused by a background operation
\* (progress and status, result dialogs, refresh of the patch history list)
\* is made on the UI thread, never by the worker thread itself
C23_UiOnMainThread == ui_caller = MainThread

\* C24: every progress value reported during batch processing is a percentage
\* between 0 and 100, also when files are added or the list is cleared while
\* the worker runs, and the value reported on normal completion is 100
C24_ProgressInRange ==
  /\ operation_progress.num >= 0
  /\ operation_progress.num <= 100 * operation_progress.den
  /\ worker.pc = "done" => operation_progress.num = 100 * operation_progress.den

----------------------------------------------------------------------------
(* Claims about references between the tables *)

\* C25: after any sequence of registry operations, called with arbitrary
\* ids, every download row references an existing mod, every comment an
\* existing mod and account, and every mod's author an existing account
C25_ReferentialIntegrity ==
  /\ \A k \in 1..Len(downloads) : downloads[k].mod_id \in ModIds
  /\ \A k \in 1..Len(comments) :
       comments[k].mod_id \in ModIds /\ comments[k].user_id \in UserIds
  /\ \A i \in ModIds : mods[i].author_id \in UserIds

\* The comments of a result of get_mod_details that carry a rating
RatedOf(details) == {c \in details.comments : comments[c].rating # None}

\* C26: every result of get_mod_details is a consistent snapshot, also when
\* add_comment runs concurrently: its rating_count is the number of its
\* comments that carry a rating
C26_DetailsConsistent ==
  (last.op = "get_mod_details" /\ last.ret # None)
  => last.ret[1].rating_count = Cardinality(RatedOf(last.ret[1]))

----------------------------------------------------------------------------
(* Claims about backups *)

\* The path create_backup writes at clock value t
BackupPath(t) ==
  join(BackupDirectory, <<"b", "a", "c", "k", "u", "p", "_">> \o strftime(t)
                        \o <<".", "b", "a", "k">>)

BackupTimes == {t \in 1..MaxTime : BackupPath(t) \in DOMAIN files}

\* The backup created last
LatestBackup == BackupPath(CHOOSE t \in BackupTimes : \A u \in BackupTimes : u <= t)

\* The step appends a record to the patch history
RecordAppended == Len(patch_history') = Len(patch_history) + 1

\* C29: with 'backup before patch' on and the backup copied, the record
\* appended by the patch application names the backup file just created,
\* whatever time passes between the backup and the recording
C29_RecordNamesBackup ==
  [][(RecordAppended /\ backup_before_patch /\ BackupTimes # {})
     => patch_history'[Len(patch_history')].backup_file = LatestBackup]_vars

----------------------------------------------------------------------------
(* Claims about the pages of the mod browser *)

\* The public mods that match the text of the search box
CurrentResultSet == ModsWhere(None, Strip(search_var))

\* The step is one of the browser: the list is refreshed and the registry
\* is not written
BrowserStep == UNCHANGED regvars

\* C30: after every step of the browser the Next button is enabled exactly
\* when the result set of the search box has rows beyond the page shown, a
\* step to the following page lists at least one row, the page index is not
\* negative, and a step that changes the search text leaves page 0
C30_NextIffMoreResults ==
  [][BrowserStep =>
       /\ current_page' >= 0
       /\ next_button' <=> (Cardinality(CurrentResultSet') > (current_page' + 1) * mods_per_page)
       /\ (current_page' = current_page + 1) => (mods_tree' # <<>>)
       /\ (search_var' # search_var) => (current_page' = 0)]_vars

====
